---- MODULE Spec2Model ----
(***************************************************************************)
(* Model of the VolatilityHunter paper-trading portfolio engine            *)
(* (src/src/tracker.py, class Portfolio) together with the sector cap of   *)
(* src/src/strategy.py.                                                    *)
(*                                                                         *)
(* Python floats are modelled as binary floating-point numbers with a      *)
(* MantBits-bit significand, round-to-nearest-even, and a smallest         *)
(* quantum of 2^-FracBits.  A float is stored as the integer               *)
(* value * 2^FracBits.                                                     *)
(***************************************************************************)
EXTENDS Integers, Sequences, FiniteSets, TLC

\* ------------------------------------------------------------------------
\* Bounds of the model
\* ------------------------------------------------------------------------
MantBits == 18
FracBits == 12
MaxCalls == 2
MaxCrashPoint == 7

\* ------------------------------------------------------------------------
\* Floating-point arithmetic (Python float: +, -, *, /)
\* ------------------------------------------------------------------------
RECURSIVE Pow2(_)
Pow2(n) == IF n <= 0 THEN 1 ELSE 2 * Pow2(n - 1)

RECURSIVE BitLen(_)
BitLen(a) == IF a = 0 THEN 0 ELSE 1 + BitLen(a \div 2)

RECURSIVE TrailingZeros(_)
TrailingZeros(a) == IF a = 0 \/ a % 2 = 1 THEN 0 ELSE 1 + TrailingZeros(a \div 2)

Abs(x) == IF x < 0 THEN -x ELSE x
Sgn(x) == IF x < 0 THEN -1 ELSE 1
Max(a, b) == IF a >= b THEN a ELSE b

\* a >= 0 is an exact magnitude expressed in units of 2^-(FracBits+g); the
\* result is the nearest float (ties to even), in units of 2^-FracBits.
RoundMag(a, g) ==
    LET Nearest(m, d, unit) ==
          LET hi == m \div unit
              lo == m % unit
              up == d > 0 /\ (2 * lo > unit \/ (2 * lo = unit /\ hi % 2 = 1))
              r  == IF up THEN hi + 1 ELSE hi
          IN  IF d >= g THEN r * Pow2(d - g) ELSE r
    IN  CHOOSE rounded \in {Nearest(m, d, Pow2(d)) :
                               m \in {a}, d \in {Max(g, BitLen(a) - MantBits)}} : TRUE

\* float(n) for an integer literal n
F(n) == n * Pow2(FracBits)

FAdd(x, y) == CHOOSE r \in {Sgn(s) * RoundMag(Abs(s), 0) : s \in {x + y}} : TRUE
FSub(x, y) == FAdd(x, 0 - y)

\* exact product ma*mb*2^k (k may be negative), rounded.  The product of the
\* two significands is assembled from 6-bit halves as Q*2^12 + R, so that no
\* intermediate value leaves the 32-bit range.
FMul(x, y) ==
    LET Rounded(a, b, ma, mb, k, s) ==
          LET e == 0 - (k + 2)
              Wide(Q, R) ==
                LET q      == IF e >= 12 THEN Q \div Pow2(e - 12)
                              ELSE Q * Pow2(12 - e) + R \div Pow2(e)
                    rest   == IF e >= 12 THEN (Q % Pow2(e - 12)) + R
                              ELSE R % Pow2(e)
                    sticky == IF rest # 0 /\ q % 2 = 0 THEN 1 ELSE 0
                IN  s * RoundMag(q + sticky, 2)
              Halves(T) ==
                Wide((ma \div 64) * (mb \div 64) + T \div 4096, T % 4096)
          IN  IF a = 0 \/ b = 0 THEN 0
              ELSE IF k >= 0 THEN s * RoundMag(ma * mb * Pow2(k), 0)
              ELSE IF k + 2 >= 0 THEN s * RoundMag(ma * mb * Pow2(k + 2), 2)
              ELSE Halves(((ma \div 64) * (mb % 64) + (ma % 64) * (mb \div 64)) * 64
                            + (ma % 64) * (mb % 64))
        Significands(a, b, ta, tb, s) ==
          Rounded(a, b, a \div Pow2(ta), b \div Pow2(tb), ta + tb - FracBits, s)
    IN  CHOOSE r \in {Significands(Abs(u), Abs(v), TrailingZeros(Abs(u)),
                                   TrailingZeros(Abs(v)), Sgn(u) * Sgn(v)) :
                         u \in {x}, v \in {y}} : TRUE

\* n fractional quotient bits of r/b by long division; result <<bits, rem>>
RECURSIVE FracDiv(_, _, _, _)
FracDiv(acc, r, b, n) ==
    IF n = 0 THEN <<acc, r>>
    ELSE CHOOSE qr \in {IF v >= b - v THEN FracDiv(2 * q + 1, v - (b - v), b, n - 1)
                        ELSE FracDiv(2 * q, 2 * v, b, n - 1) :
                          q \in {acc}, v \in {r}} : TRUE

\* x / y for y # 0 (the caller raises ZeroDivisionError for y = 0)
FDiv(x, y) ==
    LET Quotient(s, qr) ==
          LET q == qr[1]
              sticky == IF qr[2] # 0 /\ q % 2 = 0 THEN 1 ELSE 0
          IN  s * RoundMag(q + sticky, 2)
    IN  CHOOSE r \in {Quotient(Sgn(u) * Sgn(v),
                               FracDiv(Abs(u) \div Abs(v), Abs(u) % Abs(v), Abs(v),
                                       FracBits + 2)) :
                         u \in {x}, v \in {y}} : TRUE


\* ------------------------------------------------------------------------
\* Program constants
\* ------------------------------------------------------------------------
InitialCash == F(100000)
max_positions == 10
position_size == F(5000)
max_per_sector == 3
STOP_LOSS_PCT == F(0 - 10)
TAKE_PROFIT_PCT == F(25)
initial_value == F(100000)

\* The part of SECTOR_MAPPING that concerns the tickers of the model;
\* TEST1, TEST2 and NEW1 are absent from the table.
SECTOR_MAPPING ==
    [t \in {"AAPL", "MSFT", "NVDA", "AMD", "JNJ", "PFE", "LLY", "JPM", "GS"} |->
        IF t \in {"AAPL", "MSFT", "NVDA", "AMD"} THEN "Technology"
        ELSE IF t \in {"JNJ", "PFE", "LLY"} THEN "Healthcare"
        ELSE "Finance"]

Tickers == DOMAIN SECTOR_MAPPING \cup {"TEST1", "TEST2", "NEW1"}

\* ------------------------------------------------------------------------
\* Portfolio.state: cash, positions (a dict, kept in insertion order),
\* trade_history
\* ------------------------------------------------------------------------
NewState == [cash |-> InitialCash, positions |-> <<>>, trade_history |-> <<>>]

Position(t, sh, ep, d, q) ==
    [ticker |-> t, shares |-> sh, entry_price |-> ep, entry_date |-> d,
     quality_score |-> q]

RECURSIVE SeqToSet(_)
SeqToSet(s) == IF s = <<>> THEN {} ELSE {Head(s)} \cup SeqToSet(Tail(s))

Held(positions) == {positions[i].ticker : i \in 1..Len(positions)}

Lookup(positions, t) ==
    positions[CHOOSE i \in 1..Len(positions) : positions[i].ticker = t]

\* del positions[t]
RECURSIVE Remove(_, _)
Remove(positions, t) ==
    IF positions = <<>> THEN <<>>
    ELSE IF Head(positions).ticker = t THEN Tail(positions)
    ELSE <<Head(positions)>> \o Remove(Tail(positions), t)

\* ------------------------------------------------------------------------
\* The state file and its backup
\* ------------------------------------------------------------------------
NoFile == [kind |-> "missing", cash |-> 0, positions |-> <<>>, trade_history |-> <<>>]
BadFile == [kind |-> "corrupt", cash |-> 0, positions |-> <<>>, trade_history |-> <<>>]

\* json.dump(self.state, f)
DumpJson(st) ==
    [kind |-> "json", cash |-> st.cash, positions |-> st.positions,
     trade_history |-> st.trade_history]

\* json.load(f) of a parseable file
LoadJson(f) ==
    [cash |-> f.cash, positions |-> f.positions, trade_history |-> f.trade_history]

\* A running call: the in-memory state, the two files, the trades executed
\* so far, the number of file operations left before the process is killed
\* (fuel), how the coming saves end (fail: "ok", or where the save raises;
\* every save after the listed ones ends "ok"), how the saves made so far
\* ended (saved), how the call stands (status) and the in-memory state before
\* the latest trade (prev).
NoCrash == 100 * (MaxCrashPoint + 1)

Machine(st, main, backup, fuel, fail) ==
    [st |-> st, main |-> main, backup |-> backup, sells |-> <<>>, buys |-> <<>>,
     fuel |-> fuel, fail |-> fail, saved |-> <<>>, status |-> "run", prev |-> st]

\* One file operation: it happens unless the process was killed before it.
FileOp(m, main, backup) ==
    IF m.status # "run" THEN m
    ELSE IF m.fuel = 0 THEN [m EXCEPT !.status = "crashed"]
    ELSE [m EXCEPT !.fuel = @ - 1, !.main = main, !.backup = backup]

\* Variant: the main file is rewritten without the backup copy.
_save_state_no_backup(m) ==
    IF m.status # "run" THEN m
    ELSE LET how == IF m.fail = <<>> THEN "ok" ELSE Head(m.fail)
             m0  == [m EXCEPT !.fail = IF @ = <<>> THEN <<>> ELSE Tail(@),
                              !.saved = Append(@, how)]
             w1  == IF how \in {"before", "after_backup"} THEN m0
                    ELSE FileOp(m0, BadFile, m0.backup)
         IN  IF how = "ok" THEN FileOp(w1, DumpJson(w1.st), w1.backup) ELSE w1

\* Variant: a save that raises takes the call down with it.
_save_state_raising(m) ==
    IF m.status # "run" THEN m
    ELSE LET how == IF m.fail = <<>> THEN "ok" ELSE Head(m.fail)
             m0  == [m EXCEPT !.fail = IF @ = <<>> THEN <<>> ELSE Tail(@),
                              !.saved = Append(@, how)]
             c1  == IF m.main.kind = "missing" THEN m0
                    ELSE FileOp(m0, m0.main, BadFile)
             c2  == IF m.main.kind = "missing" THEN m0
                    ELSE FileOp(c1, c1.main, c1.main)
             w1  == FileOp(c2, BadFile, c2.backup)
         IN  IF how = "ok" THEN FileOp(w1, DumpJson(w1.st), w1.backup)
             ELSE [m0 EXCEPT !.status = "raised"]

\* _save_state: copy the main file over the backup when it exists, then
\* truncate and rewrite the main file.  Both writes pass through a partly
\* written file.  A save that cannot write raises at os.makedirs or at the
\* copy ("before": nothing written), at the open of the main file
\* ("after_backup") or in json.dump ("during_write": the main file is left
\* partly written); the exception is swallowed.
_save_state(m) ==
    IF m.status # "run" THEN m
    ELSE LET how == IF m.fail = <<>> THEN "ok" ELSE Head(m.fail)
             m0  == [m EXCEPT !.fail = IF @ = <<>> THEN <<>> ELSE Tail(@),
                              !.saved = Append(@, how)]
             c1  == IF m.main.kind = "missing" \/ how = "before" THEN m0
                    ELSE FileOp(m0, m0.main, BadFile)
             c2  == IF m.main.kind = "missing" \/ how = "before" THEN m0
                    ELSE FileOp(c1, c1.main, c1.main)
             w1  == IF how \in {"before", "after_backup"} THEN c2
                    ELSE FileOp(c2, BadFile, c2.backup)
         IN  IF how = "ok" THEN FileOp(w1, DumpJson(w1.st), w1.backup) ELSE w1

\* Variant: the restore rewrites the main file and leaves the backup alone.
_load_state_keeping_backup(main, backup) ==
    IF main.kind = "json"
      THEN [st |-> LoadJson(main), main |-> main, backup |-> backup]
    ELSE IF main.kind = "corrupt" /\ backup.kind = "json"
      THEN [st |-> LoadJson(backup), main |-> DumpJson(LoadJson(backup)),
            backup |-> backup]
    ELSE [st |-> NewState, main |-> main, backup |-> backup]

\* _load_state: the result is the loaded state and the two files, which the
\* restore from the backup rewrites.
_load_state(main, backup) ==
    IF main.kind = "json"
      THEN [st |-> LoadJson(main), main |-> main, backup |-> backup]
    ELSE IF main.kind = "corrupt" /\ backup.kind = "json"
      THEN LET m == _save_state(Machine(LoadJson(backup), main, backup, NoCrash, <<>>))
           IN  [st |-> LoadJson(backup), main |-> m.main, backup |-> m.backup]
    ELSE [st |-> NewState, main |-> main, backup |-> backup]


\* ------------------------------------------------------------------------
\* strategy.check_sector_diversification
\* ------------------------------------------------------------------------
SectorCount(positions, sector) ==
    Cardinality({i \in 1..Len(positions) :
        /\ positions[i].ticker \in DOMAIN SECTOR_MAPPING
        /\ SECTOR_MAPPING[positions[i].ticker] = sector})

\* Variant: a sector already at the cap still accepts one more ticker.
check_sector_inclusive(positions, new_ticker) ==
    IF new_ticker \notin DOMAIN SECTOR_MAPPING THEN TRUE
    ELSE SectorCount(positions, SECTOR_MAPPING[new_ticker]) <= max_per_sector

check_sector_diversification(positions, new_ticker) ==
    IF new_ticker \notin DOMAIN SECTOR_MAPPING THEN TRUE
    ELSE SectorCount(positions, SECTOR_MAPPING[new_ticker]) < max_per_sector

\* ------------------------------------------------------------------------
\* Portfolio._check_risk_management_trades and Portfolio.process_signals
\* ------------------------------------------------------------------------
\* ((current_price - entry_price) / entry_price) * 100
ProfitLossPct(entry_price, current_price) ==
    FMul(FDiv(FSub(current_price, entry_price), entry_price), F(100))

\* The SELL record of a full liquidation at the given price; the risk pass
\* adds the key 'reason', the strategy pass does not.
SellRecord(position, price, day) ==
    LET entry_value == FMul(position.entry_price, position.shares)
        exit_value  == FMul(price, position.shares)
        profit_loss == FSub(exit_value, entry_value)
    IN  [type |-> "SELL", ticker |-> position.ticker, shares |-> position.shares,
         entry_price |-> position.entry_price, entry_date |-> position.entry_date,
         exit_price |-> price, exit_date |-> day, profit_loss |-> profit_loss,
         profit_loss_pct |-> FMul(FDiv(profit_loss, entry_value), F(100))]

RiskRecord(position, price, day, reason) ==
    SellRecord(position, price, day) @@ [reason |-> reason]

\* Variant: the sold position stays in the positions.
ExecuteSellKeeping(m, trade) ==
    LET position == Lookup(m.st.positions, trade.ticker)
        st2 == [cash |-> FAdd(m.st.cash, FMul(trade.exit_price, position.shares)),
                positions |-> m.st.positions,
                trade_history |-> Append(m.st.trade_history, trade)]
    IN  _save_state([m EXCEPT !.prev = m.st, !.st = st2,
                              !.sells = Append(m.sells, trade)])

\* Credit the proceeds, log the trade, remove the position, force a save.
ExecuteSell(m, trade) ==
    LET position == Lookup(m.st.positions, trade.ticker)
        st2 == [cash |-> FAdd(m.st.cash, FMul(trade.exit_price, position.shares)),
                positions |-> Remove(m.st.positions, trade.ticker),
                trade_history |-> Append(m.st.trade_history, trade)]
    IN  _save_state([m EXCEPT !.prev = m.st, !.st = st2,
                              !.sells = Append(m.sells, trade)])

\* Variant: the thresholds are strict, a position exactly at -10% or +25%
\* is kept.
RECURSIVE positions_to_close_strict(_, _)
positions_to_close_strict(positions, current_prices) ==
    IF positions = <<>> THEN <<>>
    ELSE LET p    == Head(positions)
             rest == positions_to_close_strict(Tail(positions), current_prices)
         IN  IF p.ticker \notin DOMAIN current_prices THEN rest
             ELSE LET price == current_prices[p.ticker]
                      pct   == ProfitLossPct(p.entry_price, price)
                  IN  IF pct < STOP_LOSS_PCT
                        THEN <<[ticker |-> p.ticker, price |-> price,
                                reason |-> "STOP-LOSS"]>> \o rest
                      ELSE IF pct > TAKE_PROFIT_PCT
                        THEN <<[ticker |-> p.ticker, price |-> price,
                                reason |-> "TAKE-PROFIT"]>> \o rest
                      ELSE rest

\* The first loop of the risk pass: the positions to close, in the
\* iteration order of the positions, each with its live price and reason.
RECURSIVE positions_to_close(_, _)
positions_to_close(positions, current_prices) ==
    IF positions = <<>> THEN <<>>
    ELSE LET p    == Head(positions)
             rest == positions_to_close(Tail(positions), current_prices)
         IN  IF p.ticker \notin DOMAIN current_prices THEN rest
             ELSE LET price == current_prices[p.ticker]
                      pct   == ProfitLossPct(p.entry_price, price)
                  IN  IF pct <= STOP_LOSS_PCT
                        THEN <<[ticker |-> p.ticker, price |-> price,
                                reason |-> "STOP-LOSS"]>> \o rest
                      ELSE IF pct >= TAKE_PROFIT_PCT
                        THEN <<[ticker |-> p.ticker, price |-> price,
                                reason |-> "TAKE-PROFIT"]>> \o rest
                      ELSE rest

\* Variant: the risk pass leaves the positions that it closes in place.
RECURSIVE CloseAllKeeping(_, _, _)
CloseAllKeeping(m, closing, day) ==
    IF closing = <<>> \/ m.status # "run" THEN m
    ELSE LET c == Head(closing)
         IN  CloseAllKeeping(
                 ExecuteSellKeeping(m, RiskRecord(Lookup(m.st.positions, c.ticker),
                                                  c.price, day, c.reason)),
                 Tail(closing), day)

RECURSIVE CloseAll(_, _, _)
CloseAll(m, closing, day) ==
    IF closing = <<>> \/ m.status # "run" THEN m
    ELSE LET c == Head(closing)
         IN  CloseAll(ExecuteSell(m, RiskRecord(Lookup(m.st.positions, c.ticker),
                                                c.price, day, c.reason)),
                      Tail(closing), day)

_check_risk_management_trades(m, current_prices, day) ==
    CloseAll(m, positions_to_close(m.st.positions, current_prices), day)

\* Step 2: the strategy SELL signals, in list order; a signal for a ticker
\* that is not held is ignored.
RECURSIVE SellPass(_, _, _)
SellPass(m, sell_signals, day) ==
    IF sell_signals = <<>> \/ m.status # "run" THEN m
    ELSE LET signal == Head(sell_signals)
         IN  IF signal.ticker \in Held(m.st.positions)
               THEN SellPass(ExecuteSell(m, SellRecord(Lookup(m.st.positions,
                                                              signal.ticker),
                                                       signal.price, day)),
                             Tail(sell_signals), day)
             ELSE SellPass(m, Tail(sell_signals), day)

\* Variant: the BUY is not saved when it is executed.
ExecuteBuyUnsaved(m, signal, day) ==
    LET shares == FDiv(position_size, signal.price)
        cost   == FMul(shares, signal.price)
        trade  == [type |-> "BUY", ticker |-> signal.ticker, shares |-> shares,
                   entry_price |-> signal.price, entry_date |-> day,
                   cost |-> cost, quality_score |-> signal.quality_score]
        st2 == [cash |-> FSub(m.st.cash, cost),
                positions |-> Append(m.st.positions,
                    Position(signal.ticker, shares, signal.price, day,
                             signal.quality_score)),
                trade_history |-> Append(m.st.trade_history, trade)]
    IN  [m EXCEPT !.prev = m.st, !.st = st2, !.buys = Append(m.buys, trade)]

\* Variant: the BUY record is put at the head of trade_history.
ExecuteBuyAtHead(m, signal, day) ==
    LET shares == FDiv(position_size, signal.price)
        cost   == FMul(shares, signal.price)
        trade  == [type |-> "BUY", ticker |-> signal.ticker, shares |-> shares,
                   entry_price |-> signal.price, entry_date |-> day,
                   cost |-> cost, quality_score |-> signal.quality_score]
        st2 == [cash |-> FSub(m.st.cash, cost),
                positions |-> Append(m.st.positions,
                    Position(signal.ticker, shares, signal.price, day,
                             signal.quality_score)),
                trade_history |-> <<trade>> \o m.st.trade_history]
    IN  _save_state([m EXCEPT !.prev = m.st, !.st = st2,
                              !.buys = Append(m.buys, trade)])

\* One executed BUY: shares = position_size / price, cost = shares * price.
ExecuteBuy(m, signal, day) ==
    LET shares == FDiv(position_size, signal.price)
        cost   == FMul(shares, signal.price)
        trade  == [type |-> "BUY", ticker |-> signal.ticker, shares |-> shares,
                   entry_price |-> signal.price, entry_date |-> day,
                   cost |-> cost, quality_score |-> signal.quality_score]
        st2 == [cash |-> FSub(m.st.cash, cost),
                positions |-> Append(m.st.positions,
                    Position(signal.ticker, shares, signal.price, day,
                             signal.quality_score)),
                trade_history |-> Append(m.st.trade_history, trade)]
    IN  _save_state([m EXCEPT !.prev = m.st, !.st = st2,
                              !.buys = Append(m.buys, trade)])

\* Variant: a BUY signal for a held ticker adds shares to the position.
RECURSIVE BuyLoopAveraging(_, _, _)
BuyLoopAveraging(m, candidates, day) ==
    IF candidates = <<>> \/ m.status # "run" THEN m
    ELSE LET signal == Head(candidates)
             more   == IF signal.price = 0 THEN 0
                       ELSE FDiv(position_size, signal.price)
             held   == m.st.positions
         IN  IF signal.ticker \in Held(held)
               THEN BuyLoopAveraging(
                      [m EXCEPT !.st.cash = FSub(@, FMul(more, signal.price)),
                                !.st.positions =
                                   [i \in 1..Len(held) |->
                                      IF held[i].ticker = signal.ticker
                                      THEN [held[i] EXCEPT !.shares = FAdd(@, more)]
                                      ELSE held[i]]],
                      Tail(candidates), day)
             ELSE IF ~check_sector_diversification(m.st.positions, signal.ticker)
               THEN BuyLoopAveraging(m, Tail(candidates), day)
             ELSE IF m.st.cash < position_size
               THEN m
             ELSE IF signal.price = 0
               THEN [m EXCEPT !.status = "raised"]
             ELSE BuyLoopAveraging(ExecuteBuy(m, signal, day), Tail(candidates), day)

\* The loop over buy_signals[:available_slots]
RECURSIVE BuyLoop(_, _, _)
BuyLoop(m, candidates, day) ==
    IF candidates = <<>> \/ m.status # "run" THEN m
    ELSE LET signal == Head(candidates)
         IN  IF signal.ticker \in Held(m.st.positions)
               THEN BuyLoop(m, Tail(candidates), day)
             ELSE IF ~check_sector_diversification(m.st.positions, signal.ticker)
               THEN BuyLoop(m, Tail(candidates), day)
             ELSE IF m.st.cash < position_size
               THEN m
             ELSE IF signal.price = 0
               THEN [m EXCEPT !.status = "raised"]
             ELSE BuyLoop(ExecuteBuy(m, signal, day), Tail(candidates), day)

Min(a, b) == IF a <= b THEN a ELSE b

\* Variant: every BUY signal is a candidate, the list is not cut to the
\* number of free slots.
BuyPassUncut(m, buy_signals, day) ==
    LET available_slots == max_positions - Len(m.st.positions)
    IN  IF m.status = "run" /\ available_slots > 0 /\ m.st.cash >= position_size
          THEN BuyLoop(m, buy_signals, day)
        ELSE m

\* Variant: a skipped entry does not use up a slot, the next candidate
\* takes its place.
RECURSIVE BuyLoopRefilling(_, _, _, _)
BuyLoopRefilling(m, candidates, slots, day) ==
    IF candidates = <<>> \/ slots = 0 \/ m.status # "run" THEN m
    ELSE LET signal == Head(candidates)
         IN  IF signal.ticker \in Held(m.st.positions)
               THEN BuyLoopRefilling(m, Tail(candidates), slots, day)
             ELSE IF ~check_sector_diversification(m.st.positions, signal.ticker)
               THEN BuyLoopRefilling(m, Tail(candidates), slots, day)
             ELSE IF m.st.cash < position_size
               THEN m
             ELSE IF signal.price = 0
               THEN [m EXCEPT !.status = "raised"]
             ELSE BuyLoopRefilling(ExecuteBuy(m, signal, day), Tail(candidates),
                                   slots - 1, day)

BuyPassRefilling(m, buy_signals, day) ==
    LET available_slots == max_positions - Len(m.st.positions)
    IN  IF m.status = "run" /\ available_slots > 0 /\ m.st.cash >= position_size
          THEN BuyLoopRefilling(m, buy_signals, available_slots, day)
        ELSE m

\* Variant: the list is cut one entry too late.
BuyPassOneMore(m, buy_signals, day) ==
    LET available_slots == max_positions - Len(m.st.positions)
    IN  IF m.status = "run" /\ available_slots > 0 /\ m.st.cash >= position_size
          THEN BuyLoop(m, SubSeq(buy_signals, 1,
                                 Min(available_slots + 1, Len(buy_signals))), day)
        ELSE m

BuyPass(m, buy_signals, day) ==
    LET available_slots == max_positions - Len(m.st.positions)
    IN  IF m.status = "run" /\ available_slots > 0 /\ m.st.cash >= position_size
          THEN BuyLoop(m, SubSeq(buy_signals, 1, Min(available_slots, Len(buy_signals))),
                       day)
        ELSE m

\* Variant: the BUY pass runs before the strategy SELL pass.
process_signals_buys_first(m, buy_signals, sell_signals, current_prices, day) ==
    _save_state(
        SellPass(BuyPass(_check_risk_management_trades(m, current_prices, day),
                         buy_signals, day),
                 sell_signals, day))

\* Variant: a strategy SELL is executed at the live price when there is one.
process_signals_live_sells(m, buy_signals, sell_signals, current_prices, day) ==
    _save_state(
        BuyPass(SellPass(_check_risk_management_trades(m, current_prices, day),
                         [i \in 1..Len(sell_signals) |->
                             IF sell_signals[i].ticker \in DOMAIN current_prices
                             THEN [sell_signals[i] EXCEPT
                                      !.price = current_prices[sell_signals[i].ticker]]
                             ELSE sell_signals[i]],
                         day),
                buy_signals, day))

\* Variant: a ticker held when the call starts is not a candidate.
process_signals_no_rebuy(m, buy_signals, sell_signals, current_prices, day) ==
    _save_state(
        BuyPass(SellPass(_check_risk_management_trades(m, current_prices, day),
                         sell_signals, day),
                SelectSeq(buy_signals,
                          LAMBDA signal : signal.ticker \notin Held(m.st.positions)),
                day))

\* Variant: the slots and the cash are checked before the sell passes.
process_signals_early_check(m, buy_signals, sell_signals, current_prices, day) ==
    _save_state(
        IF max_positions - Len(m.st.positions) > 0 /\ m.st.cash >= position_size
          THEN BuyPass(SellPass(_check_risk_management_trades(m, current_prices, day),
                                sell_signals, day),
                       buy_signals, day)
        ELSE SellPass(_check_risk_management_trades(m, current_prices, day),
                      sell_signals, day))

\* process_signals: risk management, strategy sells, buys, final save.
process_signals(m, buy_signals, sell_signals, current_prices, day) ==
    _save_state(
        BuyPass(SellPass(_check_risk_management_trades(m, current_prices, day),
                         sell_signals, day),
                buy_signals, day))

\* ------------------------------------------------------------------------
\* Portfolio.get_summary and Portfolio.update_portfolio_valuation
\* ------------------------------------------------------------------------
\* Variant: the supplied prices are ignored.
PriceOfEntry(position, current_prices) == position.entry_price

\* current price if provided, otherwise the entry price
PriceOf(position, current_prices) ==
    IF position.ticker \in DOMAIN current_prices
      THEN current_prices[position.ticker]
    ELSE position.entry_price

RECURSIVE SumValues(_, _, _)
SumValues(acc, positions, current_prices) ==
    IF positions = <<>> THEN acc
    ELSE SumValues(FAdd(acc, FMul(Head(positions).shares,
                                  PriceOf(Head(positions), current_prices))),
                   Tail(positions), current_prices)

RECURSIVE RealizedPL(_, _)
RealizedPL(acc, history) ==
    IF history = <<>> THEN acc
    ELSE RealizedPL(IF Head(history).type = "SELL"
                      THEN FAdd(acc, Head(history).profit_loss) ELSE acc,
                    Tail(history))

PositionDetail(p, current_prices) ==
    LET current_price == PriceOf(p, current_prices)
    IN  [ticker |-> p.ticker, shares |-> p.shares, entry_price |-> p.entry_price,
         current_price |-> current_price,
         value |-> FMul(p.shares, current_price),
         unrealized_pl |-> FMul(FSub(current_price, p.entry_price), p.shares),
         unrealized_pl_pct |-> ProfitLossPct(p.entry_price, current_price),
         entry_date |-> p.entry_date]

get_summary(st, current_prices) ==
    LET positions_value == SumValues(0, st.positions, current_prices)
        total_value     == FAdd(st.cash, positions_value)
    IN  [cash |-> st.cash,
         positions_value |-> positions_value,
         total_value |-> total_value,
         total_return_pct |->
             FMul(FDiv(FSub(total_value, initial_value), initial_value), F(100)),
         total_return_dollars |-> FSub(total_value, initial_value),
         num_positions |-> Len(st.positions),
         positions_detail |->
             [i \in 1..Len(st.positions) |->
                 PositionDetail(st.positions[i], current_prices)],
         realized_pl |-> RealizedPL(0, st.trade_history),
         total_trades |-> Len(st.trade_history)]

\* The summary of update_portfolio_valuation: get_summary with the three
\* totals recomputed by adding each position's value to the cash in turn.
ValuationSummary(st, current_prices) ==
    LET total_value == SumValues(st.cash, st.positions, current_prices)
        dollars     == FSub(total_value, initial_value)
    IN  [get_summary(st, current_prices) EXCEPT
            !.total_value = total_value,
            !.total_return_dollars = dollars,
            !.total_return_pct = FMul(FDiv(dollars, initial_value), F(100))]


\* ------------------------------------------------------------------------
\* Inputs: signal lists and price maps
\* ------------------------------------------------------------------------
\* Price tables the signals and the live prices are drawn from.
PxFlat == [t \in Tickers |->
            IF t = "TEST2" THEN F(50) ELSE IF t = "NEW1" THEN F(303) ELSE F(100)]
PxUp   == [t \in Tickers |->
            IF t = "TEST1" THEN F(105) ELSE IF t = "TEST2" THEN F(55)
            ELSE IF t = "NEW1" THEN F(303) ELSE F(125)]
PxDown == [t \in Tickers |->
            IF t = "TEST2" THEN F(40) ELSE IF t = "NEW1" THEN F(303) ELSE F(90)]
PxHalt == [t \in Tickers |-> IF t = "MSFT" THEN 0 ELSE PxFlat[t]]

Restrict(f, S) == [t \in S |-> f[t]]

\* current_prices = None: no ticker has a live price
NoPrices == Restrict(PxFlat, {})

\* A market is the table the signals quote (px) and the live prices (cp).
Market(px, cp) == [px |-> px, cp |-> cp]

Calm == Market(PxFlat, NoPrices)
Bear == Market(PxDown, Restrict(PxDown, {"AAPL", "TEST2"}))
Bull == Market(PxUp, PxUp)
Halt == Market(PxHalt, NoPrices)
Stale == Market(PxFlat, Restrict(PxUp, {"TEST1", "TEST2"}))
Gap == Market(PxFlat, Restrict(PxDown, {"AAPL", "TEST2"}))

quality_score(t) ==
    IF t = "AMD" THEN F(30) ELSE IF t = "TEST1" THEN F(15)
    ELSE IF t = "TEST2" THEN F(12) ELSE F(18)

Signals(tickers, px) ==
    [i \in 1..Len(tickers) |->
        [ticker |-> tickers[i], price |-> px[tickers[i]],
         quality_score |-> quality_score(tickers[i])]]

Eleven == <<"AAPL", "MSFT", "NVDA", "JNJ", "PFE", "LLY", "JPM", "GS", "TEST1",
            "NEW1", "TEST2">>
FourTech == <<"AAPL", "MSFT", "NVDA", "AMD">>
Mixed == <<"NEW1", "TEST1", "AAPL", "AAPL">>
SellSome == <<"TEST1", "AAPL", "TEST1">>

Batch(buy, sell, mk) == [buy |-> buy, sell |-> sell, px |-> mk.px, cp |-> mk.cp]

\* The calls of process_signals the model makes
Batches ==
    {Batch(b, s, mk) : b \in {<<>>, Eleven, FourTech, Mixed},
                       s \in {<<>>, SellSome}, mk \in {Calm, Bear}}
    \cup {Batch(<<>>, <<>>, Bull), Batch(Mixed, SellSome, Bull),
          Batch(Eleven, <<>>, Halt), Batch(Mixed, SellSome, Stale),
          Batch(Mixed, SellSome, Gap)}

\* The calls during which saves fail, and how the saves of the call end
FailingBatches == {Batch(Mixed, SellSome, Bear)}
SavePlans ==
    {<<"during_write">>, <<"ok", "after_backup">>,
     <<"before", "during_write", "after_backup", "before", "before", "before",
       "before", "before">>}

\* The calls during which the process may be killed
KilledBatches == {Batch(Mixed, SellSome, Calm)}

\* The price maps handed to get_summary and fetched by the valuation
SummaryPrices == {NoPrices, PxUp, Restrict(PxUp, {"TEST1", "TEST2"})}
FetchedPrices == {NoPrices, PxUp}

\* ------------------------------------------------------------------------
\* State
\* ------------------------------------------------------------------------
VARIABLES
    state,       \* Portfolio.state of the live Portfolio object
    mainFile,    \* data/portfolio.json
    backupFile,  \* data/portfolio_backup.json
    proc,        \* "up", or "down" after the process was killed
    calls,       \* number of process_signals calls started so far
    last,        \* what the latest operation was given and what it returned
    jobs         \* the Portfolio objects of jobs running side by side

vars == <<state, mainFile, backupFile, proc, calls, last, jobs>>

NoSummary == get_summary(NewState, NoPrices)

NoLast ==
    [op |-> "none", status |-> "none", pre |-> NewState,
     preMain |-> NoFile, preBackup |-> NoFile,
     buy_signals |-> <<>>, sell_signals |-> <<>>, current_prices |-> NoPrices,
     sells |-> <<>>, buys |-> <<>>, saves |-> <<>>, prev |-> NewState,
     summary |-> NoSummary]

\* No job runs beside the live object
NoJobs == <<>>

\* The state files found at start-up: none (first run), the portfolio of
\* quick_tests.py, or the file left by a back-test started with 50000.
TestState ==
    [cash |-> F(50000),
     positions |-> <<Position("TEST1", F(10), F(100), 0, F(15)),
                     Position("TEST2", F(20), F(50), 0, F(12))>>,
     trade_history |-> <<>>]

InitFiles == {NoFile, DumpJson(TestState),
              DumpJson([NewState EXCEPT !.cash = F(50000)])}

Init ==
    /\ mainFile \in InitFiles
    /\ backupFile = NoFile
    /\ state = _load_state(mainFile, backupFile).st
    /\ proc = "up"
    /\ calls = 0
    /\ last = NoLast
    /\ jobs = NoJobs

\* ------------------------------------------------------------------------
\* Operations
\* ------------------------------------------------------------------------
Started(op, cp) ==
    [NoLast EXCEPT !.op = op, !.pre = state, !.preMain = mainFile,
                   !.preBackup = backupFile, !.current_prices = cp]

\* A job constructs its Portfolio and then trades once.
FreshObject == proc = "up" /\ last.op \in {"none", "load"}

Outcome(m, b, status) ==
    /\ state' = m.st
    /\ mainFile' = m.main
    /\ backupFile' = m.backup
    /\ last' = [Started("process_signals", b.cp) EXCEPT
                   !.status = status,
                   !.buy_signals = Signals(b.buy, b.px),
                   !.sell_signals = Signals(b.sell, b.px),
                   !.sells = m.sells, !.buys = m.buys, !.saves = m.saved,
                   !.prev = m.prev]
    /\ calls' = calls + 1

Run(b, fuel) ==
    process_signals(Machine(state, mainFile, backupFile, fuel, <<>>),
                    Signals(b.buy, b.px), Signals(b.sell, b.px), b.cp, calls + 1)

\* portfolio.process_signals(buy_signals, sell_signals, current_prices),
\* returning normally or raising on a signal
ProcessSignals(b) ==
    /\ FreshObject
    /\ calls < MaxCalls
    /\ \E m \in {Run(b, NoCrash)} :
          Outcome(m, b, IF m.status = "run" THEN "returned" ELSE m.status)
    /\ proc' = proc
    /\ jobs' = jobs

\* The same call on a machine where some of the saves cannot write
RunFailing(b, fail) ==
    process_signals(Machine(state, mainFile, backupFile, NoCrash, fail),
                    Signals(b.buy, b.px), Signals(b.sell, b.px), b.cp, calls + 1)

ProcessSignalsSaveFailing(b, fail) ==
    /\ FreshObject
    /\ calls < MaxCalls
    /\ \E m \in {RunFailing(b, fail)} :
          Outcome(m, b, IF m.status = "run" THEN "returned" ELSE m.status)
    /\ proc' = proc
    /\ jobs' = jobs

\* The process is killed during process_signals, after k file operations.
KilledInProcessSignals(b, k) ==
    /\ FreshObject
    /\ calls < MaxCalls
    /\ \E m \in {Run(b, k)} :
          /\ m.status = "crashed"
          /\ Outcome(m, b, "killed")
    /\ proc' = "down"
    /\ jobs' = jobs

\* The simulated crash of the round-trip test: the process is gone and only
\* the backup file is left.
LoseMainFile ==
    /\ proc = "up"
    /\ mainFile.kind = "json"
    /\ backupFile.kind = "json"
    /\ mainFile' = NoFile
    /\ proc' = "down"
    /\ jobs' = jobs
    /\ last' = [Started("lose_main", NoPrices) EXCEPT !.status = "killed"]
    /\ UNCHANGED <<state, backupFile, calls>>

\* Portfolio(portfolio_file): a new object over the same path
NewPortfolio ==
    /\ last.op \notin {"none", "load"}
    /\ \E r \in {_load_state(mainFile, backupFile)} :
          /\ state' = r.st
          /\ mainFile' = r.main
          /\ backupFile' = r.backup
    /\ proc' = "up"
    /\ last' = [Started("load", NoPrices) EXCEPT
                   !.status = IF proc = "up" THEN "saved" ELSE last.op,
                   !.prev = IF proc = "up" THEN state ELSE last.prev]
    /\ calls' = calls
    /\ jobs' = jobs

\* The process is killed during the save that _load_state makes when it
\* restores from the backup, after k file operations.
KilledInRestore(k) ==
    /\ last.op \notin {"none", "load", "restore"}
    /\ mainFile.kind = "corrupt"
    /\ backupFile.kind = "json"
    /\ \E m \in {_save_state(Machine(LoadJson(backupFile), mainFile, backupFile,
                                     k, <<>>))} :
          /\ m.status = "crashed"
          /\ mainFile' = m.main
          /\ backupFile' = m.backup
    /\ proc' = "down"
    /\ last' = [Started("restore", NoPrices) EXCEPT !.status = "killed"]
    /\ UNCHANGED <<state, calls, jobs>>

\* Variant: get_summary saves the state like update_portfolio_valuation.
GetSummarySaving(cp) ==
    /\ proc = "up"
    /\ last.op \in {"none", "load", "process_signals"}
    /\ \E m \in {_save_state(Machine(state, mainFile, backupFile, NoCrash, <<>>))} :
          /\ mainFile' = m.main
          /\ backupFile' = m.backup
    /\ last' = [Started("get_summary", cp) EXCEPT
                   !.status = "returned", !.summary = get_summary(state, cp)]
    /\ UNCHANGED <<state, proc, calls, jobs>>

\* portfolio.get_summary(current_prices)
GetSummary(cp) ==
    /\ proc = "up"
    /\ last.op \in {"none", "load", "process_signals"}
    /\ last' = [Started("get_summary", cp) EXCEPT
                   !.status = "returned", !.summary = get_summary(state, cp)]
    /\ UNCHANGED <<state, mainFile, backupFile, proc, calls, jobs>>

\* portfolio.update_portfolio_valuation(): the prices fetched are those of
\* some of the held tickers, possibly none.
UpdateValuation(cp) ==
    /\ proc = "up"
    /\ last.op \in {"none", "load", "process_signals"}
    /\ \E m \in {_save_state(Machine(state, mainFile, backupFile, NoCrash, <<>>))} :
          /\ mainFile' = m.main
          /\ backupFile' = m.backup
    /\ \E fetched \in {Restrict(cp, DOMAIN cp \cap Held(state.positions))} :
          last' = [Started("update_portfolio_valuation", fetched) EXCEPT
                      !.status = "returned",
                      !.summary = ValuationSummary(state, fetched)]
    /\ UNCHANGED <<state, proc, calls, jobs>>

Next ==
    \/ \E b \in Batches : ProcessSignals(b)
    \/ \E b \in FailingBatches, fail \in SavePlans : ProcessSignalsSaveFailing(b, fail)
    \/ \E b \in KilledBatches, k \in 0..MaxCrashPoint : KilledInProcessSignals(b, k)
    \/ LoseMainFile
    \/ \E k \in 0..MaxCrashPoint : KilledInRestore(k)
    \/ NewPortfolio
    \/ \E cp \in SummaryPrices : GetSummary(cp)
    \/ \E cp \in FetchedPrices : UpdateValuation(cp)

Spec == Init /\ [][Next]_vars

\* The same operations on a portfolio that starts new: no file at start-up,
\* cash 100000, no positions, empty history
FreshInit == Init /\ mainFile = NoFile

FreshSpec == FreshInit /\ [][Next]_vars


\* ------------------------------------------------------------------------
\* Price series and indicators (src/src/strategy.py).  A frame is a pandas
\* DataFrame of n daily rows: the rows of head, then copies of base, then
\* the rows of tail; dated tells whether it has a 'date' column, and the
\* date of row i is day i.  Prices and volumes are whole numbers.  The Open
\* column, the W formation and the engulfing candle only feed the wording
\* of 'reason' and three informative indicators; they are left out.
\* ------------------------------------------------------------------------
\* Parameters with a trend window one bar short.
ShortWindowParams ==
    [sma_period |-> 199, stochastic_k_period |-> 10, stochastic_d_period |-> 3,
     stochastic_smooth |-> 3, sweet_spot_lower |-> 32, sweet_spot_upper |-> 80,
     min_cagr |-> 15]

\* Parameters without a growth bar.
NoFloorParams ==
    [sma_period |-> 200, stochastic_k_period |-> 10, stochastic_d_period |-> 3,
     stochastic_smooth |-> 3, sweet_spot_lower |-> 32, sweet_spot_upper |-> 80,
     min_cagr |-> 0 - 100]

STRATEGY_PARAMS ==
    [sma_period |-> 200, stochastic_k_period |-> 10, stochastic_d_period |-> 3,
     stochastic_smooth |-> 3, sweet_spot_lower |-> 32, sweet_spot_upper |-> 80,
     min_cagr |-> 15]

\* NaN: a value that no float of the model takes.  In the indicators of a
\* result it stands for None.
NaN == 0 - Pow2(30)
isna(x) == x = NaN

Bar(c, h, l, v) == [Close |-> c, High |-> h, Low |-> l, Volume |-> v]

DataFrame(n, head, base, tail, dated) ==
    [none |-> FALSE, n |-> n, head |-> head, base |-> base, tail |-> tail,
     dated |-> dated]

\* df = None
NoneFrame == [none |-> TRUE]

\* df.iloc[i - 1]
iloc(df, i) ==
    IF i <= Len(df.head) THEN df.head[i]
    ELSE IF i > df.n - Len(df.tail) THEN df.tail[i - (df.n - Len(df.tail))]
    ELSE df.base

RECURSIVE ColumnSum(_, _, _, _)
ColumnSum(df, col, lo, hi) ==
    IF lo > hi THEN 0
    ELSE IF lo = hi THEN iloc(df, lo)[col]
    ELSE ColumnSum(df, col, lo, (lo + hi) \div 2)
           + ColumnSum(df, col, (lo + hi) \div 2 + 1, hi)

ColumnMin(df, col, lo, hi) ==
    CHOOSE x \in {iloc(df, i)[col] : i \in lo..hi} :
        \A i \in lo..hi : x <= iloc(df, i)[col]

ColumnMax(df, col, lo, hi) ==
    CHOOSE x \in {iloc(df, i)[col] : i \in lo..hi} :
        \A i \in lo..hi : x >= iloc(df, i)[col]

\* df[col].rolling(window).mean() at row i: NaN until the window is full
RollingMean(df, col, window, i) ==
    IF i < window THEN NaN
    ELSE FDiv(F(ColumnSum(df, col, i - window + 1, i)), F(window))

calculate_sma(df, period, i) == RollingMean(df, "Close", period, i)

calculate_volume_sma(df, period, i) == RollingMean(df, "Volume", period, i)

\* rolling(window=3).mean() of a float series, values oldest first
Mean3(a, b, c) ==
    CHOOSE mean \in {IF isna(u) \/ isna(v) \/ isna(w) THEN NaN
                     ELSE FDiv(FAdd(FAdd(u, v), w), F(3)) :
                       u \in {a}, v \in {b}, w \in {c}} : TRUE

\* 100 * (Close - low_min) / (high_max - low_min); 0/0 is NaN (no frame of
\* the model has a flat window with the close outside it)
k_raw(df, i) ==
    LET k_period == STRATEGY_PARAMS.stochastic_k_period
    IN  IF i < k_period THEN NaN
        ELSE LET low_min  == ColumnMin(df, "Low", i - k_period + 1, i)
                 high_max == ColumnMax(df, "High", i - k_period + 1, i)
             IN  IF high_max = low_min THEN NaN
                 ELSE FMul(F(100), FDiv(F(iloc(df, i).Close - low_min),
                                        F(high_max - low_min)))

\* calculate_stochastic: k_smooth and d at row i (smooth = d_period = 3)
Stochastic_K(df, i) ==
    IF i < 3 THEN NaN ELSE Mean3(k_raw(df, i - 2), k_raw(df, i - 1), k_raw(df, i))

Stochastic_D(df, i) ==
    IF i < 3 THEN NaN
    ELSE Mean3(Stochastic_K(df, i - 2), Stochastic_K(df, i - 1), Stochastic_K(df, i))

\* (((end_price / start_price) ** (1 / actual_years)) - 1) * 100 with
\* actual_years = actual_days / 365.25.  The power is evaluated outside the
\* model, for the price pairs and spans of the frames below, in units of
\* 1/1024 percent; equal prices give exactly 0.
GrowthPct(start_price, end_price, actual_days) ==
    LET key == <<start_price, end_price, actual_days>>
    IN  IF end_price = start_price THEN 0
        ELSE FDiv(F(CASE key = <<100, 125, 249>> -> 39654
                      [] key = <<100, 125, 199>> -> 51831
                      [] key = <<100, 125, 198>> -> 52150
                      [] key = <<100, 150, 249>> -> 83210
                      [] key = <<100, 150, 199>> -> 113127
                      [] key = <<100, 109, 249>> -> 13798
                      [] key = <<100, 90, 249>> -> 0 - 14664
                      [] key = <<50, 90, 249>> -> 140122),
                  F(1024))

calculate_cagr(df) ==
    IF df.n < 2 THEN 0
    ELSE IF ~df.dated THEN 0
    ELSE LET first       == Max(1, df.n - 730)
             start_price == iloc(df, first).Close
             end_price   == iloc(df, df.n).Close
             actual_days == df.n - first
         IN  IF actual_days <= 0 \/ start_price <= 0 THEN 0
             ELSE GrowthPct(start_price, end_price, actual_days)

\* a > b on floats, False when either side is NaN
Gt(a, b) == ~isna(a) /\ ~isna(b) /\ a > b

check_volume_quality(df) ==
    IF df.n < 30 THEN FALSE
    ELSE LET current_volume == iloc(df, df.n).Volume
             avg_volume     == calculate_volume_sma(df, 30, df.n)
         IN  IF isna(avg_volume) \/ avg_volume = 0 THEN FALSE
             ELSE FDiv(F(current_volume), avg_volume) >= F(1)

\* <<consistent, current_vs_avg>>.  With S the sum and v a value of the last
\* five volumes, abs(v - mean) <= 2 * std reads (5v - S)^2 <= sum of the
\* (5x - S)^2, std being the sample deviation sqrt(sum((x - mean)^2) / 4).
check_volume_consistency(df) ==
    IF df.n < 5 THEN <<FALSE, FALSE>>
    ELSE LET rows == (df.n - 4)..df.n
             S    == ColumnSum(df, "Volume", df.n - 4, df.n)
             D(i) == 5 * iloc(df, i).Volume - S
             SS   == D(df.n - 4) * D(df.n - 4) + D(df.n - 3) * D(df.n - 3)
                       + D(df.n - 2) * D(df.n - 2) + D(df.n - 1) * D(df.n - 1)
                       + D(df.n) * D(df.n)
         IN  << \A i \in rows : D(i) * D(i) <= SS,
                5 * iloc(df, df.n).Volume > S >>

\* <<k_above_d, trend_up>>
check_stochastic_crossover(df) ==
    IF df.n < 4 THEN <<FALSE, FALSE>>
    ELSE LET Crossed(curr_k, curr_d, prev_k, prev_d) ==
               IF isna(curr_k) \/ isna(curr_d) \/ isna(prev_k) \/ isna(prev_d)
               THEN <<FALSE, FALSE>>
               ELSE << curr_k > curr_d,
                       /\ Gt(curr_k, Stochastic_K(df, df.n - 3))
                       /\ Gt(curr_d, Stochastic_D(df, df.n - 3)) >>
         IN  Crossed(Stochastic_K(df, df.n), Stochastic_D(df, df.n),
                     Stochastic_K(df, df.n - 1), Stochastic_D(df, df.n - 1))

\* the largest member of a non-empty set of numbers
Largest(S) == CHOOSE x \in S : \A y \in S : y <= x

detect_head_and_shoulders(df) ==
    IF df.n < 60 THEN FALSE
    ELSE LET high(i) == iloc(df, i).High
             peaks   == {i \in (df.n - 58)..(df.n - 1) :
                            high(i) > high(i - 1) /\ high(i) > high(i + 1)}
         IN  IF Cardinality(peaks) < 3 THEN FALSE
             ELSE LET r  == Largest(peaks)
                      h  == Largest(peaks \ {r})
                      l  == Largest(peaks \ {r, h})
                      left_shoulder_price  == high(l)
                      head_price           == high(h)
                      right_shoulder_price == high(r)
                  IN  /\ head_price > left_shoulder_price
                      /\ head_price > right_shoulder_price
                      /\ FDiv(F(Abs(left_shoulder_price - right_shoulder_price)),
                              F(Max(left_shoulder_price, right_shoulder_price)))
                            < FDiv(F(2), F(10))
                      /\ right_shoulder_price < left_shoulder_price

check_power_stock_exception(df) ==
    IF df.n < 200 THEN FALSE
    ELSE LET current_price == F(iloc(df, df.n).Close)
         IN  /\ Gt(Stochastic_K(df, df.n), F(80))
             /\ Gt(current_price, calculate_sma(df, 25, df.n))
             /\ Gt(current_price, calculate_sma(df, 50, df.n))
             /\ Gt(current_price, calculate_sma(df, 100, df.n))
             /\ Gt(current_price, calculate_sma(df, 200, df.n))
             /\ F(iloc(df, df.n).Volume)
                  > FMul(calculate_volume_sma(df, 30, df.n), FDiv(F(3), F(2)))

\* For now every ticker is safe
check_earnings_safety(ticker) == TRUE

\* {} and an exception propagating to the caller
EmptyDict == [k \in {} |-> 0]
Raise(e) == [exception |-> e]

\* <<why>> when a check fails, nothing when it passes
Fails(ok, why) == IF ok THEN <<>> ELSE <<why>>

\* A checklist that lets thin volume through.
ChecklistIgnoringVolume(trend, sweet, cross, rising, volume, steady, safe) ==
    Fails(trend, "Price below SMA 200")
    \o Fails(sweet, "Stochastic K outside sweet spot")
    \o Fails(cross, "Stochastic K not above D")
    \o Fails(rising, "Stochastics not trending up")
    \o Fails(steady, "Volume inconsistent")
    \o Fails(safe, "Earnings risk")

\* The professional checklist: the failure_reasons, empty when price is
\* above SMA 200 (trend), K is in the sweet spot (sweet), K is above D
\* (cross), both trend up (rising), volume is above average (volume) and
\* consistent (steady) and no earnings are due (safe)
Checklist(trend, sweet, cross, rising, volume, steady, safe) ==
    Fails(trend, "Price below SMA 200")
    \o Fails(sweet, "Stochastic K outside sweet spot")
    \o Fails(cross, "Stochastic K not above D")
    \o Fails(rising, "Stochastics not trending up")
    \o Fails(volume, "Volume insufficient")
    \o Fails(steady, "Volume inconsistent")
    \o Fails(safe, "Earnings risk")

\* Sell conditions without the stochastic breakdown.
SellReasonsNoBreakdown(trend, pattern, breakdown) ==
    Fails(trend, "Price below SMA 200 (trend break)")
    \o Fails(~pattern, "Head & Shoulders pattern detected")

\* Sell conditions that look at the trend only.
SellReasonsTrendOnly(trend, pattern, breakdown) ==
    Fails(trend, "Price below SMA 200 (trend break)")

\* The sell_reasons of a failed checklist: price not above SMA 200 (trend),
\* head and shoulders detected (pattern), K below the sweet spot (breakdown)
SellReasons(trend, pattern, breakdown) ==
    Fails(trend, "Price below SMA 200 (trend break)")
    \o Fails(~pattern, "Head & Shoulders pattern detected")
    \o Fails(~breakdown, "Stochastic breakdown")

\* analyze_stock(df, ticker); friday is what is_friday_trading() answers.
\* 'reason' is the list of the parts that the code joins, without numbers.
analyze_stock(df, ticker, friday) ==
    IF df.none \/ df.n < STRATEGY_PARAMS.sma_period
    THEN [signal |-> "INSUFFICIENT_DATA",
          reason |-> <<"Not enough data for analysis">>,
          indicators |-> EmptyDict]
    ELSE IF ~df.dated THEN Raise("KeyError: 'date'")
    ELSE
    LET \* past the CAGR floor, with the results of the checks
        Classified(basic, raw_score, volume_ok, consistency, crossover,
                   head_and_shoulders, is_power_stock) ==
          LET price               == basic.price
              sma_200             == basic.sma_200
              stoch_k             == basic.stochastic_k
              volume_consistent   == consistency[1]
              k_above_d           == crossover[1]
              stochastic_trend_up == crossover[2]
              earnings_safe       == check_earnings_safety(ticker)
              indicators ==
                  [price |-> price, sma_200 |-> sma_200,
                   stochastic_k |-> stoch_k, cagr |-> basic.cagr, date |-> df.n,
                   volume_ok |-> volume_ok,
                   volume_consistent |-> volume_consistent,
                   volume_increasing |-> consistency[2],
                   k_above_d |-> k_above_d,
                   stochastic_trend_up |-> stochastic_trend_up,
                   head_and_shoulders |-> head_and_shoulders,
                   is_power_stock |-> is_power_stock, is_friday |-> friday]
              price_above_sma == price > sma_200
              in_sweet_spot   == /\ F(STRATEGY_PARAMS.sweet_spot_lower) <= stoch_k
                                 /\ stoch_k <= F(STRATEGY_PARAMS.sweet_spot_upper)
              failure_reasons ==
                  Checklist(price_above_sma, in_sweet_spot, k_above_d,
                            stochastic_trend_up, volume_ok, volume_consistent,
                            earnings_safe)
              checklist_pass == failure_reasons = <<>>
              sell_reasons ==
                  SellReasons(price_above_sma, head_and_shoulders,
                              stoch_k < F(STRATEGY_PARAMS.sweet_spot_lower))
          IN  IF checklist_pass
              THEN [signal |-> "BUY",
                    reason |-> <<"PROFESSIONAL CHECKLIST PASS">>,
                    indicators |-> indicators,
                    quality_score |-> FMul(raw_score, FDiv(F(3), F(2)))]
              ELSE IF sell_reasons # <<>>
              THEN [signal |-> "SELL", reason |-> sell_reasons,
                    indicators |-> indicators, quality_score |-> raw_score]
              ELSE IF is_power_stock
              THEN [signal |-> "HOLD", reason |-> <<"POWER STOCK EXCEPTION">>,
                    indicators |-> indicators,
                    quality_score |-> FMul(raw_score, FDiv(F(12), F(10)))]
              ELSE IF friday
              THEN [signal |-> "HOLD",
                    reason |-> <<"FRIDAY RULE", "CHECKLIST FAIL">>
                                 \o failure_reasons,
                    indicators |-> indicators, quality_score |-> raw_score]
              ELSE [signal |-> "HOLD",
                    reason |-> <<"CHECKLIST FAIL">> \o failure_reasons,
                    indicators |-> indicators, quality_score |-> raw_score]
        \* the indicators are computed, then the score, then the two early
        \* returns, then the checks; each value is computed once
        Scored(basic, raw_score) ==
          IF isna(basic.sma_200) \/ isna(basic.stochastic_k)
          THEN [signal |-> "INSUFFICIENT_DATA",
                reason |-> <<"Indicators not yet calculated">>,
                indicators |-> basic, quality_score |-> raw_score]
          ELSE IF basic.cagr < F(STRATEGY_PARAMS.min_cagr)
          THEN [signal |-> "HOLD", reason |-> <<"CAGR below minimum">>,
                indicators |-> basic, quality_score |-> raw_score]
          ELSE CHOOSE analysis \in
                 {Classified(basic, raw_score, volume_ok, consistency, crossover,
                             head_and_shoulders, is_power_stock) :
                    volume_ok \in {check_volume_quality(df)},
                    consistency \in {check_volume_consistency(df)},
                    crossover \in {check_stochastic_crossover(df)},
                    head_and_shoulders \in {detect_head_and_shoulders(df)},
                    is_power_stock \in {check_power_stock_exception(df)}} : TRUE
        Indicated(basic) ==
          CHOOSE analysis \in
            {Scored(basic, raw_score) :
               raw_score \in {IF ~isna(basic.stochastic_k)
                               THEN FMul(basic.cagr,
                                         FDiv(basic.stochastic_k, F(100)))
                               ELSE basic.cagr}} : TRUE
    IN  CHOOSE analysis \in
          {Indicated(basic) :
             basic \in {[price |-> F(iloc(df, df.n).Close),
                          sma_200 |-> calculate_sma(df, 200, df.n),
                          stochastic_k |-> Stochastic_K(df, df.n),
                          cagr |-> calculate_cagr(df), date |-> df.n]}} : TRUE

\* scan_all_stocks: stock_data_dict is the list of the items of the dict,
\* in iteration order.  alert_signal only formats and logs a line.
NoResults == [BUY |-> <<>>, SELL |-> <<>>, HOLD |-> <<>>, ERROR |-> <<>>]

\* A scan that drops a ticker whose analysis raised.
ScanTickerLosingErrors(results, ticker, df, friday) ==
    LET Filed(analysis) ==
          IF "exception" \in DOMAIN analysis THEN results
          ELSE LET result == [ticker |-> ticker, signal |-> analysis.signal,
                              reason |-> analysis.reason,
                              indicators |-> analysis.indicators,
                              quality_score |->
                                  IF "quality_score" \in DOMAIN analysis
                                  THEN analysis.quality_score ELSE 0]
               IN  IF analysis.signal = "INSUFFICIENT_DATA"
                   THEN [results EXCEPT !.ERROR = Append(@, result)]
                   ELSE [results EXCEPT ![analysis.signal] = Append(@, result)]
    IN  CHOOSE filed \in {Filed(analysis) :
                             analysis \in {analyze_stock(df, ticker, friday)}} : TRUE

ScanTicker(results, ticker, df, friday) ==
    LET Filed(analysis) ==
          IF "exception" \in DOMAIN analysis
          THEN [results EXCEPT !.ERROR =
                   Append(@, [ticker |-> ticker, signal |-> "ERROR",
                              reason |-> analysis.exception,
                              indicators |-> EmptyDict])]
          ELSE LET signal == analysis.signal
                   result == [ticker |-> ticker, signal |-> signal,
                              reason |-> analysis.reason,
                              indicators |-> analysis.indicators,
                              quality_score |->
                                  IF "quality_score" \in DOMAIN analysis
                                  THEN analysis.quality_score ELSE 0]
               IN  IF signal \in {"BUY", "SELL", "HOLD", "INSUFFICIENT_DATA"}
                   THEN IF signal = "INSUFFICIENT_DATA"
                        THEN [results EXCEPT !.ERROR = Append(@, result)]
                        ELSE [results EXCEPT ![signal] = Append(@, result)]
                   ELSE results
    IN  CHOOSE filed \in {Filed(analysis) :
                             analysis \in {analyze_stock(df, ticker, friday)}} : TRUE

RECURSIVE ScanFrom(_, _, _)
ScanFrom(results, items, friday) ==
    IF items = <<>> THEN results
    ELSE ScanFrom(ScanTicker(results, items[1][1], items[1][2], friday),
                  Tail(items), friday)

scan_all_stocks(stock_data_dict, friday) ==
    ScanFrom(NoResults, stock_data_dict, friday)

get_portfolio_summary(scan_results) ==
    [total_stocks |-> Len(scan_results.BUY) + Len(scan_results.SELL)
                        + Len(scan_results.HOLD) + Len(scan_results.ERROR),
     buy_signals |-> Len(scan_results.BUY),
     sell_signals |-> Len(scan_results.SELL),
     hold_signals |-> Len(scan_results.HOLD),
     errors |-> Len(scan_results.ERROR),
     buy_list |-> [i \in 1..Len(scan_results.BUY) |-> scan_results.BUY[i].ticker],
     sell_list |-> [i \in 1..Len(scan_results.SELL) |-> scan_results.SELL[i].ticker]]

\* ------------------------------------------------------------------------
\* Price series given to the classifier.  Baseline: 100 with a range of
\* 98..102 and a volume of 30.
\* ------------------------------------------------------------------------
Calmbar == Bar(100, 102, 98, 30)

Times(n, bar) == [i \in 1..n |-> bar]

\* eight bars at 110 under an early spike to 130, then 110, 115, 130, 125
RallyTail(last_volume) ==
    Times(8, Bar(110, 130, 108, 30))
    \o <<Bar(110, 112, 108, 30), Bar(115, 117, 113, 30), Bar(130, 132, 128, 30),
         Bar(125, 127, 123, last_volume)>>

\* Close 150 on the final 10 bars
JumpTail(high, low, last_volume) ==
    Times(9, Bar(150, high, low, 30)) \o <<Bar(150, high, low, last_volume)>>

Frame(n, tail) == DataFrame(n, <<>>, Calmbar, tail, TRUE)

Rally      == Frame(250, RallyTail(40))
Rally200   == Frame(200, RallyTail(40))
Rally199   == Frame(199, RallyTail(40))
RallyThin  == Frame(250, RallyTail(20))
Flat       == Frame(250, <<>>)
Creep      == Frame(250, <<Bar(109, 111, 107, 30)>>)
Jump       == Frame(250, JumpTail(102, 98, 30))
JumpRange  == Frame(250, JumpTail(152, 148, 30))
JumpPower  == Frame(250, JumpTail(102, 98, 50))
JumpSpike  == Frame(250, <<Bar(150, 250, 148, 30)>> \o Times(9, Bar(150, 152, 148, 30)))
JumpHS     == Frame(250, <<Bar(100, 104, 98, 30), Calmbar, Bar(100, 108, 98, 30),
                           Calmbar, Bar(100, 103, 98, 30), Calmbar>>
                         \o JumpTail(152, 148, 30))
\* a power stock with a head and shoulders in its highs
JumpHSPower == Frame(250, <<Bar(100, 104, 98, 30), Calmbar, Bar(100, 108, 98, 30),
                            Calmbar, Bar(100, 103, 98, 30), Calmbar>>
                          \o JumpTail(152, 148, 50))
Slide      == DataFrame(250, <<Bar(50, 52, 48, 30)>>, Calmbar,
                        Times(12, Bar(90, 92, 88, 30)), TRUE)
\* Below the CAGR floor with one SELL condition each: under SMA 200, a head
\* and shoulders in the highs, stochastic K under the sweet spot
Drop       == Frame(250, Times(12, Bar(90, 92, 88, 30)))
CreepHS    == Frame(250, <<Bar(100, 104, 98, 30), Calmbar, Bar(100, 108, 98, 30),
                           Calmbar, Bar(100, 103, 98, 30), Calmbar,
                           Bar(109, 111, 107, 30)>>)
CreepSpike == Frame(250, <<Bar(100, 250, 98, 30)>> \o Times(8, Calmbar)
                         \o <<Bar(109, 111, 107, 30)>>)
Stuck      == Frame(250, Times(12, Bar(150, 150, 150, 30)))
Stuck200   == Frame(200, Times(12, Bar(150, 150, 150, 30)))
Undated    == DataFrame(250, <<>>, Calmbar, RallyTail(40), FALSE)
Undated199 == DataFrame(199, <<>>, Calmbar, RallyTail(40), FALSE)
Single     == Frame(1, <<>>)

Frames ==
    {NoneFrame, Single, Rally199, Undated199, Rally200, Stuck200, Rally,
     RallyThin, Flat, Creep, Drop, CreepHS, CreepSpike, Jump, JumpRange,
     JumpPower, JumpSpike, JumpHS, JumpHSPower, Slide, Stuck, Undated}

\* ------------------------------------------------------------------------
\* The classifier and the universe scan on their own: one call of
\* analyze_stock or of scan_all_stocks per step, no portfolio involved.
\* ------------------------------------------------------------------------
MaxUniverse == 3

Universe == <<"AAPL", "JNJ", "JPM", "MSFT">>

ScannedFrames == {NoneFrame, Rally199, Rally, Flat, Slide, Stuck, Undated}

\* the dicts of up to MaxUniverse tickers
Universes ==
    UNION {{[i \in 1..n |-> <<Universe[i], f[i]>>] : f \in [1..n -> ScannedFrames]} :
              n \in 0..MaxUniverse}

\* The calls that a run may make: one per behaviour, drawn at the start.
Requests ==
    {[op |-> "request", fn |-> "analyze_stock", df |-> df,
      ticker |-> Universe[1], friday |-> friday] :
        df \in Frames, friday \in BOOLEAN}
    \cup {[op |-> "request", fn |-> "scan_all_stocks", stock_data_dict |-> d,
           friday |-> friday] : d \in Universes, friday \in BOOLEAN}

ScanInit ==
    /\ state = NewState
    /\ mainFile = NoFile
    /\ backupFile = NoFile
    /\ proc = "up"
    /\ calls = 0
    /\ last \in Requests
    /\ jobs = NoJobs

AnalyzeStock ==
    /\ last.op = "request" /\ last.fn = "analyze_stock"
    /\ last' = [op |-> "analyze_stock", df |-> last.df, ticker |-> last.ticker,
                friday |-> last.friday,
                analysis |-> analyze_stock(last.df, last.ticker, last.friday)]
    /\ UNCHANGED <<state, mainFile, backupFile, proc, calls, jobs>>

ScanAllStocks ==
    /\ last.op = "request" /\ last.fn = "scan_all_stocks"
    /\ \E results \in {scan_all_stocks(last.stock_data_dict, last.friday)} :
          last' = [op |-> "scan_all_stocks",
                   stock_data_dict |-> last.stock_data_dict,
                   friday |-> last.friday, results |-> results,
                   summary |-> get_portfolio_summary(results)]
    /\ UNCHANGED <<state, mainFile, backupFile, proc, calls, jobs>>

ScanNext == AnalyzeStock \/ ScanAllStocks

ScanSpec == ScanInit /\ [][ScanNext]_vars

\* ------------------------------------------------------------------------
\* Jobs side by side: each has its own Portfolio object over the same path
\* and nothing serializes them.  A job constructs its Portfolio, runs the
\* passes of process_signals (every trade is saved as it is made), makes the
\* final save and returns.  The jobs run on the same day.
\* ------------------------------------------------------------------------
MaxJobs == 2

Jobs == 1..MaxJobs

Idle == [pc |-> "idle", st |-> NewState, sells |-> <<>>, buys |-> <<>>]

RaceFiles == {NoFile, DumpJson(TestState)}

RaceBatches ==
    {Batch(<<"NEW1">>, <<>>, Calm), Batch(<<>>, <<"TEST1">>, Calm),
     Batch(Mixed, SellSome, Calm), Batch(<<>>, <<>>, Bear)}

RaceInit ==
    /\ mainFile \in RaceFiles
    /\ backupFile = NoFile
    /\ state = NewState
    /\ proc = "up"
    /\ calls = 0
    /\ last = NoLast
    /\ jobs = [j \in Jobs |-> Idle]

\* Variant: the state is read from the file again when it is used.
self_state_reloaded(j) == _load_state(mainFile, backupFile).st

\* self.state of the Portfolio of job j: read from the file by __init__,
\* after that only what the object itself did to it
self_state(j) == jobs[j].st

\* Portfolio(portfolio_file) in job j
Construct(j) ==
    /\ jobs[j].pc = "idle"
    /\ \E r \in {_load_state(mainFile, backupFile)} :
          /\ jobs' = [jobs EXCEPT ![j].pc = "loaded", ![j].st = r.st]
          /\ mainFile' = r.main
          /\ backupFile' = r.backup
    /\ UNCHANGED <<state, proc, calls, last>>

\* process_signals in job j up to its final save
Trade(j, b) ==
    /\ jobs[j].pc = "loaded"
    /\ \E m \in {BuyPass(SellPass(_check_risk_management_trades(
                                    Machine(self_state(j), mainFile, backupFile,
                                            NoCrash, <<>>),
                                    b.cp, 1),
                                Signals(b.sell, b.px), 1),
                       Signals(b.buy, b.px), 1)} :
          /\ jobs' = [jobs EXCEPT ![j] =
                         [pc |-> IF m.status = "run" THEN "traded" ELSE m.status,
                          st |-> m.st, sells |-> m.sells, buys |-> m.buys]]
          /\ mainFile' = m.main
          /\ backupFile' = m.backup
    /\ calls' = calls + 1
    /\ UNCHANGED <<state, proc, last>>

\* The final save of process_signals in job j, and its return
FinalSave(j) ==
    /\ jobs[j].pc = "traded"
    /\ \E m \in {_save_state(Machine(self_state(j), mainFile, backupFile,
                                     NoCrash, <<>>))} :
          /\ jobs' = [jobs EXCEPT ![j].pc = "returned", ![j].st = m.st]
          /\ mainFile' = m.main
          /\ backupFile' = m.backup
    /\ UNCHANGED <<state, proc, calls, last>>

RaceNext ==
    \/ \E j \in Jobs : Construct(j)
    \/ \E j \in Jobs, b \in RaceBatches : Trade(j, b)
    \/ \E j \in Jobs : FinalSave(j)

RaceSpec == RaceInit /\ [][RaceNext]_vars

\* ------------------------------------------------------------------------
\* Properties
\* ------------------------------------------------------------------------
TickersOf(records) == [i \in 1..Len(records) |-> records[i].ticker]

Distinct(tickers) == Cardinality(SeqToSet(tickers)) = Len(tickers)

IsPrefix(s, t) == Len(s) <= Len(t) /\ SubSeq(t, 1, Len(s)) = s

Returned == last.op = "process_signals" /\ last.status = "returned"

\* C1: starting from cash >= 0, cash is never negative after any sequence
\* of process_signals calls with positive prices, and a BUY is executed only
\* when cash >= position_size at that moment.
C1_CashNeverNegative ==
    /\ state.cash >= 0
    /\ (Returned /\ last.buys # <<>>) => last.prev.cash >= position_size

\* C2: starting with at most 10 positions, the number of held positions is
\* at most 10 after every process_signals call, however many BUY signals
\* were supplied and whatever the sell passes did.
C2_AtMostTenPositions == Len(state.positions) <= max_positions

\* C2 witness: a call that was given more BUY signals than there are slots
\* and filled the portfolio.
C2_Witness ==
    /\ Returned
    /\ Len(last.buy_signals) > max_positions
    /\ Len(state.positions) = max_positions

KnownSectors == {SECTOR_MAPPING[t] : t \in DOMAIN SECTOR_MAPPING}

\* The BUY list of the call is four distinct tickers of one known sector.
FourOfOneSector ==
    /\ Len(last.buy_signals) = 4
    /\ Distinct(TickersOf(last.buy_signals))
    /\ \E sector \in KnownSectors : \A i \in 1..4 :
          /\ last.buy_signals[i].ticker \in DOMAIN SECTOR_MAPPING
          /\ SECTOR_MAPPING[last.buy_signals[i].ticker] = sector

\* C3: no known sector ever holds more than max_per_sector = 3 tickers; four
\* BUY signals of one known sector offered to an empty portfolio yield
\* exactly the first three in list order, whatever the fourth's
\* quality_score; tickers outside the sector table are never counted and
\* never blocked.
C3_SectorCap ==
    /\ \A sector \in KnownSectors :
          SectorCount(state.positions, sector) <= max_per_sector
    /\ (Returned /\ FourOfOneSector /\ last.pre.positions = <<>>
          /\ last.pre.cash >= FMul(F(4), position_size))
       => TickersOf(last.buys) = SubSeq(TickersOf(last.buy_signals), 1, 3)
    /\ \A t \in Tickers \ DOMAIN SECTOR_MAPPING :
          /\ check_sector_diversification(state.positions, t)
          /\ Cardinality({i \in 1..Len(state.positions) :
                            state.positions[i].ticker \in DOMAIN SECTOR_MAPPING})
             = SectorCount(state.positions, "Technology")
               + SectorCount(state.positions, "Healthcare")
               + SectorCount(state.positions, "Finance")

\* C3 witness: four technology tickers were offered to an empty portfolio,
\* the fourth with the highest quality_score, and three are held.
C3_Witness ==
    /\ Returned /\ FourOfOneSector /\ last.pre.positions = <<>>
    /\ \A i \in 1..3 :
          last.buy_signals[4].quality_score > last.buy_signals[i].quality_score
    /\ Len(state.positions) = 3

\* C4: trade_history is append-only: across process_signals (with its
\* risk-management pass), get_summary and update_portfolio_valuation the
\* previous contents stay an unchanged prefix of the new contents.
C4_AppendOnly ==
    [][last'.op \in {"process_signals", "get_summary",
                     "update_portfolio_valuation"}
         => IsPrefix(state.trade_history, state'.trade_history)]_vars

\* C4 witness: a call added records to a trade_history that already had some.
C4_Witness ==
    /\ last.op = "process_signals"
    /\ last.pre.trade_history # <<>>
    /\ Len(state.trade_history) > Len(last.pre.trade_history)

HasReason(trade) == "reason" \in DOMAIN trade

RiskSells == SelectSeq(last.sells, HasReason)

StrategySells == SelectSeq(last.sells, LAMBDA trade : ~HasReason(trade))

\* s can be obtained from t by deleting entries
RECURSIVE Embeds(_, _)
Embeds(s, t) ==
    IF s = <<>> THEN TRUE
    ELSE IF t = <<>> THEN FALSE
    ELSE IF Head(s) = Head(t) THEN Embeds(Tail(s), Tail(t))
    ELSE Embeds(s, Tail(t))

\* C5: the records one process_signals call appends to trade_history are
\* exactly the returned trades: the risk-management SELLs (STOP-LOSS /
\* TAKE-PROFIT) first, then the strategy SELLs in sell_signals order, then
\* the BUYs in buy_signals order.
C5_TradeOrder ==
    Returned =>
      /\ state.trade_history
           = last.pre.trade_history \o RiskSells \o StrategySells \o last.buys
      /\ last.sells = RiskSells \o StrategySells
      /\ \A i \in 1..Len(last.sells) : last.sells[i].type = "SELL"
      /\ \A i \in 1..Len(last.buys) : last.buys[i].type = "BUY"
      /\ \A i \in 1..Len(RiskSells) :
            RiskSells[i].reason \in {"STOP-LOSS", "TAKE-PROFIT"}
      /\ Embeds(TickersOf(RiskSells), TickersOf(last.pre.positions))
      /\ Embeds(TickersOf(StrategySells), TickersOf(last.sell_signals))
      /\ Embeds(TickersOf(last.buys), TickersOf(last.buy_signals))

\* C5 witness: one call made a risk-management SELL, a strategy SELL and at
\* least two BUYs.
C5_Witness ==
    /\ Returned
    /\ RiskSells # <<>>
    /\ StrategySells # <<>>
    /\ Len(last.buys) >= 2

\* The call was given 11 distinct tickers, none held, none blocked by the
\* sector cap, at positive prices, with an empty portfolio and enough cash.
ElevenOffered ==
    /\ last.pre.positions = <<>>
    /\ last.pre.cash >= FMul(F(11), position_size)
    /\ Len(last.buy_signals) = max_positions + 1
    /\ Distinct(TickersOf(last.buy_signals))
    /\ \A i \in 1..Len(last.buy_signals) : last.buy_signals[i].price > 0
    /\ \A sector \in KnownSectors :
          Cardinality({i \in 1..Len(last.buy_signals) :
              /\ last.buy_signals[i].ticker \in DOMAIN SECTOR_MAPPING
              /\ SECTOR_MAPPING[last.buy_signals[i].ticker] = sector})
          <= max_per_sector

\* C6: 11 such signals yield exactly 10 BUYs, for the first 10 list entries,
\* and the 11th is never bought; in general the BUYs of a call never exceed
\* the slots that are free after the sell passes.
C6_BuysWithinSlots ==
    /\ (Returned /\ ElevenOffered) =>
          /\ TickersOf(last.buys)
               = SubSeq(TickersOf(last.buy_signals), 1, max_positions)
          /\ last.buy_signals[max_positions + 1].ticker \notin Held(state.positions)
    /\ last.op = "process_signals" =>
          Len(last.buys)
            <= max_positions - (Len(last.pre.positions) - Len(last.sells))

\* C6 witness: the 11 signals were offered and 10 positions are held.
C6_Witness == Returned /\ ElevenOffered /\ Len(last.buys) = max_positions

Reloaded == last.op = "load"

\* C7: saving a state and constructing a new Portfolio on the same path
\* reproduces the same cash, positions and trade_history, also after a
\* simulated crash that left only the backup (main file missing or
\* unreadable): the load then returns the state held in the backup.
C7_RoundTrip ==
    /\ (Reloaded /\ last.status = "saved") => state = last.pre
    /\ (Reloaded /\ last.preMain.kind \in {"missing", "corrupt"}
          /\ last.preBackup.kind = "json")
       => state = LoadJson(last.preBackup)

ReloadedAfterKill == Reloaded /\ last.status = "process_signals"

\* C8: a kill at any point of process_signals followed by a reload loses at
\* most the trade in progress: the reloaded trade_history starts with every
\* trade executed before the latest one (those of earlier calls included)
\* and is at most one record short of the history in memory at the kill.
C8_CrashLosesAtMostOneTrade ==
    ReloadedAfterKill =>
      /\ IsPrefix(last.prev.trade_history, state.trade_history)
      /\ Len(last.pre.trade_history) <= Len(state.trade_history) + 1

\* C8 witness: the kill left the main file unreadable during the save of a
\* later trade; the reload restored the backup and lost exactly that trade.
C8_Witness ==
    /\ ReloadedAfterKill
    /\ last.preMain.kind = "corrupt"
    /\ last.prev.trade_history # <<>>
    /\ state = last.prev
    /\ Len(last.pre.trade_history) = Len(state.trade_history) + 1

\* One of the saves of the latest call could not write
SaveFailed == \E i \in 1..Len(last.saves) : last.saves[i] # "ok"

Ended == last.op = "process_signals" /\ last.status \in {"returned", "raised"}

ExpectedPrice(i) ==
    LET position == state.positions[i]
    IN  IF position.ticker \in DOMAIN last.current_prices
          THEN last.current_prices[position.ticker]
        ELSE position.entry_price

RECURSIVE ExpectedValue(_)
ExpectedValue(n) ==
    IF n = 0 THEN 0
    ELSE FAdd(ExpectedValue(n - 1),
              FMul(state.positions[n].shares, ExpectedPrice(n)))

\* The portfolio and the prices of test_portfolio_summary
SummaryScenario ==
    /\ last.op = "get_summary"
    /\ state.cash = F(50000)
    /\ Len(state.positions) = 2
    /\ state.positions[1].ticker = "TEST1" /\ state.positions[1].shares = F(10)
    /\ state.positions[1].entry_price = F(100)
    /\ state.positions[2].ticker = "TEST2" /\ state.positions[2].shares = F(20)
    /\ state.positions[2].entry_price = F(50)
    /\ DOMAIN last.current_prices = {"TEST1", "TEST2"}
    /\ last.current_prices["TEST1"] = F(105)
    /\ last.current_prices["TEST2"] = F(55)

\* C10: get_summary returns total_value = cash + the sum over the positions
\* of shares * p, p being the supplied price of the ticker or else the entry
\* price (so without prices every unrealized P/L is 0), num_positions = the
\* number of positions and total_return_dollars = total_value - 100000
\* whatever the starting cash; cash 50000 with TEST1 10 @ 100, TEST2 20 @ 50
\* and prices 105 and 55 gives exactly 52150.
C10_Summary ==
    /\ last.op = "get_summary" =>
          /\ last.summary.total_value
               = FAdd(state.cash, ExpectedValue(Len(state.positions)))
          /\ last.summary.num_positions = Len(state.positions)
          /\ last.summary.total_return_dollars
               = FSub(last.summary.total_value, F(100000))
          /\ DOMAIN last.current_prices = {} =>
                \A i \in 1..Len(state.positions) :
                   /\ last.summary.positions_detail[i].unrealized_pl = 0
                   /\ last.summary.positions_detail[i].unrealized_pl_pct = 0
    /\ SummaryScenario => last.summary.total_value = F(52150)

\* C10 witness: the scenario of the test, in a portfolio that started with
\* 50000 and not 100000.
C10_Witness ==
    /\ SummaryScenario
    /\ last.summary.total_return_dollars = F(0 - 47850)

\* C11: get_summary is a pure read: for any state and any price map it
\* leaves cash, positions and trade_history unchanged and writes neither the
\* main nor the backup state file.
C11_SummaryPureRead ==
    [][last'.op = "get_summary"
         => /\ state' = state
            /\ mainFile' = mainFile
            /\ backupFile' = backupFile]_vars

\* C11 witness: get_summary was called with prices on a portfolio that holds
\* positions and whose backup file differs from its main file.
C11_Witness ==
    /\ last.op = "get_summary"
    /\ state.positions # <<>>
    /\ DOMAIN last.current_prices # {}
    /\ mainFile.kind = "json"
    /\ backupFile # mainFile


\* The bucket in which the scan must file an item of the input dict.
BucketOf(item, friday) ==
    LET analysis == analyze_stock(item[2], item[1], friday)
    IN  IF "exception" \in DOMAIN analysis THEN "ERROR"
        ELSE IF analysis.signal = "INSUFFICIENT_DATA" THEN "ERROR"
        ELSE analysis.signal

Scanned == last.op = "scan_all_stocks"

\* C12: scan_all_stocks files every ticker of the input dict in exactly one
\* of BUY, SELL, HOLD, ERROR, once, in input order within a bucket: each
\* bucket lists exactly the input tickers classified to it (ERROR those with
\* INSUFFICIENT_DATA or an exception), whatever happened to the tickers
\* before them, and total_stocks is the number of input tickers.
C12_ScanBuckets ==
    Scanned =>
        /\ \A b \in {"BUY", "SELL", "HOLD", "ERROR"} :
              LET Filed(item) == BucketOf(item, last.friday) = b
                  expected    == SelectSeq(last.stock_data_dict, Filed)
              IN  TickersOf(last.results[b])
                    = [i \in 1..Len(expected) |-> expected[i][1]]
        /\ last.summary.total_stocks = Len(last.stock_data_dict)

\* C12 witness: a scan of three tickers in which the first analysis raised,
\* the second gave BUY and the third INSUFFICIENT_DATA.
C12_Witness ==
    /\ Scanned
    /\ Len(last.stock_data_dict) = 3
    /\ "exception" \in DOMAIN analyze_stock(last.stock_data_dict[1][2],
                                             last.stock_data_dict[1][1], last.friday)
    /\ TickersOf(last.results.BUY) = <<last.stock_data_dict[2][1]>>
    /\ TickersOf(last.results.ERROR)
         = <<last.stock_data_dict[1][1], last.stock_data_dict[3][1]>>
    /\ last.results.ERROR[1].signal = "ERROR"
    /\ last.results.ERROR[2].signal = "INSUFFICIENT_DATA"
    /\ last.summary.total_stocks = 3

Analysed == last.op = "analyze_stock" /\ "signal" \in DOMAIN last.analysis

\* The length, indicator-availability and CAGR pre-checks of a dated frame.
PassedPreChecks(df) ==
    /\ ~df.none /\ df.n >= 200 /\ df.dated
    /\ ~isna(calculate_sma(df, 200, df.n))
    /\ ~isna(Stochastic_K(df, df.n))
    /\ calculate_cagr(df) >= F(15)

\* The seven gates, read off the indicators of the frame.
AllGatesPass(df) ==
    /\ F(iloc(df, df.n).Close) > calculate_sma(df, 200, df.n)
    /\ Stochastic_K(df, df.n) >= F(32) /\ Stochastic_K(df, df.n) <= F(80)
    /\ Stochastic_K(df, df.n) > Stochastic_D(df, df.n)
    /\ check_stochastic_crossover(df)[2]
    /\ check_volume_quality(df)
    /\ check_volume_consistency(df)[1]
    /\ check_earnings_safety(last.ticker)

\* The raw score cagr * (stochastic_k / 100)
RawScore(df) == FMul(calculate_cagr(df), FDiv(Stochastic_K(df, df.n), F(100)))

\* C13: for a series that passed the length, indicator and CAGR pre-checks,
\* analyze_stock returns BUY exactly when all seven gates pass; otherwise the
\* result is SELL or HOLD; and on BUY the quality_score is 1.5 times the raw
\* score.
C13_BuyIffAllGates ==
    (Analysed /\ PassedPreChecks(last.df)) =>
        /\ last.analysis.signal = "BUY" <=> AllGatesPass(last.df)
        /\ last.analysis.signal \in {"BUY", "SELL", "HOLD"}
        /\ last.analysis.signal = "BUY" =>
              last.analysis.quality_score = FMul(RawScore(last.df), FDiv(F(3), F(2)))

\* C13 witness: a BUY with a positive score on a frame that passes all gates.
C13_Witness ==
    /\ Analysed
    /\ PassedPreChecks(last.df)
    /\ AllGatesPass(last.df)
    /\ last.analysis.signal = "BUY"
    /\ RawScore(last.df) > 0
    /\ last.analysis.quality_score > RawScore(last.df)

AnalyzeCalled == last.op = "analyze_stock"

ReturnedInsufficient ==
    Analysed /\ last.analysis.signal = "INSUFFICIENT_DATA"

\* a dated frame of at least 200 bars whose latest SMA_200 or stochastic_k
\* is not available
IndicatorsMissing(df) ==
    /\ ~df.none /\ df.n >= 200 /\ df.dated
    /\ \/ isna(calculate_sma(df, 200, df.n))
       \/ isna(Stochastic_K(df, df.n))

IndicatorsComputable(df) ==
    /\ ~df.none /\ df.n >= 200 /\ df.dated
    /\ ~isna(calculate_sma(df, 200, df.n))
    /\ ~isna(Stochastic_K(df, df.n))

\* C14 as stated: INSUFFICIENT_DATA with empty indicators is returned, not
\* raised, for every series of fewer than 200 bars and for every series whose
\* latest SMA_200 or stochastic_k is not available; a series of exactly 200
\* bars with all indicators computable yields BUY, SELL or HOLD.
C14_InsufficientEmpty ==
    AnalyzeCalled =>
        /\ (last.df.none \/ last.df.n < 200 \/ IndicatorsMissing(last.df)) =>
              /\ ReturnedInsufficient
              /\ DOMAIN last.analysis.indicators = {}
        /\ (IndicatorsComputable(last.df) /\ last.df.n = 200) =>
              /\ Analysed
              /\ last.analysis.signal \in {"BUY", "SELL", "HOLD"}

\* C14 amended: INSUFFICIENT_DATA is returned, not raised, with empty
\* indicators for every series of fewer than 200 bars, and with a snapshot
\* (price, cagr, date, None for what is missing) and a quality_score for a
\* series whose latest SMA_200 or stochastic_k is not available; a series of
\* exactly 200 bars with all indicators computable yields BUY, SELL or HOLD.
C14_Insufficient ==
    AnalyzeCalled =>
        /\ (last.df.none \/ last.df.n < 200) =>
              /\ ReturnedInsufficient
              /\ DOMAIN last.analysis.indicators = {}
              /\ "quality_score" \notin DOMAIN last.analysis
        /\ IndicatorsMissing(last.df) =>
              /\ ReturnedInsufficient
              /\ DOMAIN last.analysis.indicators
                   = {"price", "sma_200", "stochastic_k", "cagr", "date"}
              /\ last.analysis.indicators.price = F(iloc(last.df, last.df.n).Close)
              /\ "quality_score" \in DOMAIN last.analysis
        /\ (IndicatorsComputable(last.df) /\ last.df.n = 200) =>
              /\ Analysed
              /\ last.analysis.signal \in {"BUY", "SELL", "HOLD"}

\* C14 witness: a series of exactly 199 bars came back as INSUFFICIENT_DATA
\* with empty indicators.
C14_Witness ==
    /\ ReturnedInsufficient
    /\ ~last.df.none
    /\ last.df.n = 199
    /\ DOMAIN last.analysis.indicators = {}

\* Scenario B: a dated series on a baseline of 100 whose Close is 150 on the
\* final 10 bars, so that the latest price is above its SMA_200.
ScenarioB(df) ==
    /\ ~df.none /\ df.dated /\ df.n >= 200
    /\ \A i \in 1..(df.n - 10) : iloc(df, i).Close = 100
    /\ \A i \in (df.n - 9)..df.n : iloc(df, i).Close = 150
    /\ F(150) > calculate_sma(df, 200, df.n)

SignalFor(signals, t) ==
    signals[CHOOSE i \in 1..Len(signals) : signals[i].ticker = t]

LastBuy == last.buys[Len(last.buys)]

\* C16: each executed BUY of an unheld ticker at signal price p debits cash by
\* exactly position_size = 5000, with shares = 5000 / p, adds one position
\* for that ticker with entry_price = p and the signal's quality_score, and
\* appends one BUY record (stated for every BUY record of a call and, state
\* against state, for the last BUY of the call).
C16_BuyDebitsPositionSize ==
    (Returned /\ last.buys # <<>>) =>
        /\ \A i \in 1..Len(last.buys) :
              LET b == last.buys[i]
                  signal == SignalFor(last.buy_signals, b.ticker)
              IN  /\ b.type = "BUY"
                  /\ b.entry_price = signal.price
                  /\ b.quality_score = signal.quality_score
                  /\ b.shares = FDiv(position_size, signal.price)
                  /\ b.cost = position_size
        /\ LastBuy.ticker \notin Held(last.prev.positions)
        /\ state.cash = FSub(last.prev.cash, position_size)
        /\ state.positions
             = Append(last.prev.positions,
                      Position(LastBuy.ticker, LastBuy.shares, LastBuy.entry_price,
                               LastBuy.entry_date, LastBuy.quality_score))
        /\ state.trade_history = Append(last.prev.trade_history, LastBuy)

Without(positions, tickers) ==
    SelectSeq(positions, LAMBDA p : p.ticker \notin {tickers[i] : i \in 1..Len(tickers)})

\* The positions left by the risk pass of the call
AfterRisk == Without(last.pre.positions, TickersOf(RiskSells))

\* The sell signals that find their ticker held when the loop reaches them
RECURSIVE Liquidated(_, _)
Liquidated(signals, held) ==
    IF signals = <<>> THEN <<>>
    ELSE IF Head(signals).ticker \in held
      THEN <<Head(signals)>>
             \o Liquidated(Tail(signals), held \ {Head(signals).ticker})
    ELSE Liquidated(Tail(signals), held)

\* cash after crediting the proceeds of the sells, then debiting the buys
RECURSIVE Credited(_, _)
Credited(cash, sells) ==
    IF sells = <<>> THEN cash
    ELSE Credited(FAdd(cash, FMul(Head(sells).exit_price, Head(sells).shares)),
                  Tail(sells))

RECURSIVE Debited(_, _)
Debited(cash, buys) ==
    IF buys = <<>> THEN cash
    ELSE Debited(FSub(cash, Head(buys).cost), Tail(buys))

\* C17: the strategy SELL pass liquidates exactly the sell-signal tickers
\* held at that moment: each is removed whole, shares * the signal's price
\* (not the live price) is credited, one SELL record with profit_loss =
\* shares * exit_price - shares * entry_price is appended; a sell signal for
\* a ticker not held changes nothing.
C17_StrategySells ==
    Returned =>
        LET due == Liquidated(last.sell_signals, Held(AfterRisk))
        IN  /\ Len(StrategySells) = Len(due)
            /\ \A i \in 1..Len(due) :
                  LET trade    == StrategySells[i]
                      position == Lookup(last.pre.positions, due[i].ticker)
                  IN  /\ trade.ticker = due[i].ticker
                      /\ trade.shares = position.shares
                      /\ trade.entry_price = position.entry_price
                      /\ trade.exit_price = due[i].price
                      /\ trade.profit_loss
                           = FSub(FMul(due[i].price, position.shares),
                                  FMul(position.entry_price, position.shares))
            /\ SubSeq(state.positions, 1, Len(last.pre.positions) - Len(last.sells))
                 = Without(AfterRisk, TickersOf(due))
            /\ state.cash = Debited(Credited(last.pre.cash, last.sells), last.buys)
            /\ (due = <<>> /\ RiskSells = <<>> /\ last.buys = <<>>) =>
                  state = last.pre

\* C17 witness: a held ticker with a different live price was sold at the
\* price of its signal, in a call that also had a sell signal for a ticker
\* that was not held.
C17_Witness ==
    /\ Returned
    /\ \E i \in 1..Len(StrategySells) :
          /\ StrategySells[i].ticker \in DOMAIN last.current_prices
          /\ last.current_prices[StrategySells[i].ticker]
               # StrategySells[i].exit_price
    /\ \E j \in 1..Len(last.sell_signals) :
          last.sell_signals[j].ticker \notin Held(last.pre.positions)

\* pl_pct of a position at its live price
pl_pct(position) ==
    FMul(FDiv(FSub(last.current_prices[position.ticker], position.entry_price),
              position.entry_price),
         F(100))

Priced(position) == position.ticker \in DOMAIN last.current_prices

\* The held positions the risk pass has to close
Triggered ==
    SelectSeq(last.pre.positions,
              LAMBDA p : Priced(p) /\ (pl_pct(p) <= F(0 - 10) \/ pl_pct(p) >= F(25)))

\* C18: the risk pass closes exactly the held positions that have a live
\* price and whose pl_pct is <= -10 (STOP-LOSS) or >= +25 (TAKE-PROFIT),
\* crediting shares * current_price; a position without a live price, and
\* every position when current_prices is None, is left alone by the pass.
C18_RiskPass ==
    Returned =>
        /\ TickersOf(RiskSells) = TickersOf(Triggered)
        /\ \A i \in 1..Len(Triggered) :
              LET trade == RiskSells[i]
                  position == Triggered[i]
              IN  /\ trade.reason = IF pl_pct(position) <= F(0 - 10)
                                      THEN "STOP-LOSS" ELSE "TAKE-PROFIT"
                  /\ trade.shares = position.shares
                  /\ trade.entry_price = position.entry_price
                  /\ trade.exit_price = last.current_prices[position.ticker]
                  /\ position.ticker \notin Held(AfterRisk)
        /\ \A i \in 1..Len(last.pre.positions) :
              LET position == last.pre.positions[i]
              IN  ~Priced(position) =>
                    \/ \E j \in 1..Len(state.positions) :
                          state.positions[j] = position
                    \/ position.ticker \in Held(StrategySells)
        /\ state.cash
             = Debited(Credited(Credited(last.pre.cash, RiskSells), StrategySells),
                       last.buys)
        /\ last.current_prices = NoPrices => RiskSells = <<>>

\* C18 witness: a call closed a position entered at 100 and quoted at 90
\* with a STOP-LOSS record, and kept a position for which no live price was
\* supplied.
C18_Witness ==
    /\ Returned
    /\ \E i \in 1..Len(Triggered) :
          /\ Triggered[i].entry_price = F(100)
          /\ last.current_prices[Triggered[i].ticker] = F(90)
          /\ RiskSells[i].reason = "STOP-LOSS"
    /\ \E i \in 1..Len(last.pre.positions) :
          /\ ~Priced(last.pre.positions[i])
          /\ last.pre.positions[i].ticker \in Held(state.positions)

\* The call just made, on a machine where every save can write
Unhindered ==
    process_signals(Machine(last.pre, last.preMain, last.preBackup, NoCrash, <<>>),
                    last.buy_signals, last.sell_signals, last.current_prices, calls)

FailedCallEnds ==
    (last.op = "process_signals" /\ last.status # "killed" /\ SaveFailed) =>
        /\ last.status = "returned"
        /\ state = Unhindered.st
        /\ last.sells = Unhindered.sells
        /\ last.buys = Unhindered.buys
        /\ Len(last.saves) = Len(Unhindered.saved)
        /\ last.saves[Len(last.saves)] = "ok" => mainFile = DumpJson(state)

SaveAfterFailedCall ==
    (/\ last.op = "process_signals" /\ last.status = "returned" /\ SaveFailed
     /\ last'.op = "update_portfolio_valuation")
        => (state' = state /\ mainFile' = DumpJson(state))

\* C19: a _save_state that cannot write is not raised to the caller:
\* process_signals goes on with the remaining signals and ends with the same
\* in-memory cash, positions and trade_history and the same trades as if
\* every save had worked, and the next save that works, in the call or after
\* it, writes the whole state, trades with a failed save included.
C19_SaveFailureSwallowed == []FailedCallEnds /\ [][SaveAfterFailedCall]_vars

\* C19 witness: the save of the first trade of a call failed while writing,
\* the call went on to sell and buy, and its last save wrote everything.
C19_Witness ==
    /\ Returned
    /\ Len(last.saves) >= 3
    /\ last.saves[1] = "during_write"
    /\ last.saves[Len(last.saves)] = "ok"
    /\ last.sells # <<>>
    /\ last.buys # <<>>
    /\ mainFile = DumpJson(state)
    /\ state.trade_history # last.pre.trade_history

\* The position is in the list, field for field
Keeps(positions, position) ==
    \E j \in 1..Len(positions) : positions[j] = position

\* A SELL record of the call liquidates the whole position
LiquidatedWhole(position) ==
    \E i \in 1..Len(last.sells) :
        /\ last.sells[i].ticker = position.ticker
        /\ last.sells[i].shares = position.shares
        /\ last.sells[i].entry_price = position.entry_price

\* C20: a position is immutable between its creation and its deletion: a
\* BUY signal for a ticker held when the BUY pass reaches it is skipped, the
\* position keeps its shares and entry_price and no cash is debited; a
\* position leaves the portfolio only by a liquidation of all its shares.
C20_PositionsImmutable ==
    /\ last.op \in {"get_summary", "update_portfolio_valuation"} =>
          state.positions = last.pre.positions
    /\ last.op = "process_signals" =>
          /\ \A i \in 1..Len(last.pre.positions) :
                LET position == last.pre.positions[i]
                IN  IF position.ticker \in Held(last.sells)
                    THEN /\ LiquidatedWhole(position)
                         /\ position.ticker \in Held(state.positions)
                              => position.ticker \in Held(last.buys)
                    ELSE /\ Keeps(state.positions, position)
                         /\ position.ticker \notin Held(last.buys)
          /\ Distinct(TickersOf(last.buys))
          /\ Distinct(TickersOf(state.positions))
          /\ state.cash = Debited(Credited(last.pre.cash, last.sells), last.buys)

\* C20 witness: the BUY pass met a signal for a ticker it held, left the
\* position as it was, and went on to buy a later signal of the list.
C20_Witness ==
    /\ Returned
    /\ \E i, j \in 1..Len(last.buy_signals) :
          /\ i < j
          /\ last.buy_signals[i].ticker \in Held(last.pre.positions)
          /\ last.buy_signals[i].ticker \notin Held(last.sells)
          /\ last.buy_signals[i].price
               # Lookup(state.positions, last.buy_signals[i].ticker).entry_price
          /\ Keeps(state.positions,
                   Lookup(last.pre.positions, last.buy_signals[i].ticker))
          /\ last.buy_signals[j].ticker \in Held(last.buys)

\* indicators available and growth under the bar of 15 percent
BelowFloor(df) == IndicatorsComputable(df) /\ calculate_cagr(df) < F(15)

\* Some SELL condition of the series holds
SellTrigger(df) ==
    \/ ~(F(iloc(df, df.n).Close) > calculate_sma(df, 200, df.n))
    \/ detect_head_and_shoulders(df)
    \/ Stochastic_K(df, df.n) < F(32)

C22_SellBeforeHold ==
    (AnalyzeCalled /\ PassedPreChecks(last.df) /\ ~AllGatesPass(last.df)) =>
        /\ Analysed
        /\ last.analysis.signal \in {"SELL", "HOLD"}
        /\ last.analysis.signal = "SELL" <=> SellTrigger(last.df)
        /\ last.analysis.signal = "SELL" =>
              last.analysis.quality_score = RawScore(last.df)
        /\ last.analysis.signal = "HOLD" =>
              last.analysis.quality_score
                = IF check_power_stock_exception(last.df)
                  THEN FMul(RawScore(last.df), FDiv(F(12), F(10)))
                  ELSE RawScore(last.df)

\* C22 witness: on a Friday a power stock with a head and shoulders was
\* classified SELL with the raw score.
C22_Witness ==
    /\ Analysed
    /\ PassedPreChecks(last.df) /\ ~AllGatesPass(last.df)
    /\ last.friday
    /\ check_power_stock_exception(last.df)
    /\ detect_head_and_shoulders(last.df)
    /\ last.analysis.signal = "SELL"
    /\ last.analysis.quality_score = RawScore(last.df)

\* The trades that a job has executed and reported so far
TradesOf(job) == job.sells \o job.buys

\* The step is one of job j's process_signals
Traded(j) == jobs'[j] # jobs[j] /\ jobs'[j].pc \in {"traded", "returned"}

\* C23: whatever the other jobs have written in between, a job running
\* process_signals goes on from the state that its own object holds, and
\* each of its saves overwrites the file with that state: its history grows
\* by its own trades only, and after its trade or final save the file holds
\* exactly its in-memory state.
C23_LastWriterWins ==
    [][\A j \in Jobs :
          Traded(j) =>
            /\ IsPrefix(jobs[j].st.trade_history, jobs'[j].st.trade_history)
            /\ Len(jobs'[j].st.trade_history)
                 = Len(jobs[j].st.trade_history)
                   + Len(TradesOf(jobs'[j])) - Len(TradesOf(jobs[j]))
            /\ (jobs'[j].pc = "returned" \/ TradesOf(jobs'[j]) # <<>>)
                  => mainFile' = DumpJson(jobs'[j].st)]_vars

\* C23 witness: two jobs have returned, the file holds the state of one of
\* them, and a trade that the other one executed and saved is not in it.
C23_Witness ==
    \E a, b \in Jobs :
        /\ a # b
        /\ jobs[a].pc = "returned" /\ jobs[b].pc = "returned"
        /\ mainFile = DumpJson(jobs[b].st)
        /\ \E t \in SeqToSet(TradesOf(jobs[a])) :
              /\ t \in SeqToSet(jobs[a].st.trade_history)
              /\ t \notin SeqToSet(LoadJson(mainFile).trade_history)

\* sum of shares * entry_price over the held positions
CostBasis(positions) == SumValues(0, positions, NoPrices)

\* C24: from a new portfolio, after every process_signals call cash plus
\* the cost basis of the held positions minus the profit_loss of all SELL
\* records equals 100000, and get_summary's realized_pl equals cash plus
\* cost basis minus the initial capital.
C24_MoneyConserved ==
    (last.op = "none" \/ Returned) =>
        /\ FSub(FAdd(state.cash, CostBasis(state.positions)),
                RealizedPL(0, state.trade_history)) = InitialCash
        /\ get_summary(state, NoPrices).realized_pl
             = FSub(FAdd(state.cash, CostBasis(state.positions)), InitialCash)

\* The index of the most recent record of a ticker in a history
Latest(history, t) ==
    CHOOSE i \in 1..Len(history) :
        /\ history[i].ticker = t
        /\ \A j \in (i + 1)..Len(history) : history[j].ticker # t

\* Record i is a SELL that closes the BUY before it: the nearest earlier
\* record of its ticker is a BUY with its shares, entry_price and entry_date
ClosesItsBuy(history, i) ==
    \E j \in 1..(i - 1) :
        /\ history[j].ticker = history[i].ticker
        /\ \A k \in (j + 1)..(i - 1) : history[k].ticker # history[i].ticker
        /\ history[j].type = "BUY"
        /\ history[j].shares = history[i].shares
        /\ history[j].entry_price = history[i].entry_price
        /\ history[j].entry_date = history[i].entry_date

Count(records, t) == Cardinality({i \in 1..Len(records) : records[i].ticker = t})

\* C26: in one process_signals call a held position is liquidated at most
\* once and credited once: the SELL records of the call name distinct held
\* tickers, a ticker closed by the risk pass that is also in sell_signals has
\* only the risk record (live price, STOP-LOSS or TAKE-PROFIT), a ticker
\* listed several times in sell_signals has one SELL record, and cash is
\* credited once per record.
C26_LiquidatedOnce ==
    Returned =>
        /\ Distinct(TickersOf(last.sells))
        /\ \A i \in 1..Len(last.sells) :
              last.sells[i].ticker \in Held(last.pre.positions)
        /\ \A i \in 1..Len(Triggered) :
              /\ Count(last.sells, Triggered[i].ticker) = 1
              /\ Count(StrategySells, Triggered[i].ticker) = 0
              /\ \A j \in 1..Len(last.sells) :
                    last.sells[j].ticker = Triggered[i].ticker =>
                      /\ last.sells[j].reason \in {"STOP-LOSS", "TAKE-PROFIT"}
                      /\ last.sells[j].exit_price
                           = last.current_prices[Triggered[i].ticker]
        /\ \A t \in Held(last.pre.positions) :
              Count(last.sell_signals, t) > 0 => Count(last.sells, t) = 1
        /\ state.cash = Debited(Credited(last.pre.cash, last.sells), last.buys)

\* C26 witness: a call closed a position at its live price in the risk
\* pass although a sell signal named the ticker at another price, and gave
\* one SELL record to a ticker listed twice in sell_signals.
C26_Witness ==
    /\ Returned
    /\ \E i \in 1..Len(RiskSells), j \in 1..Len(last.sell_signals) :
          /\ last.sell_signals[j].ticker = RiskSells[i].ticker
          /\ last.sell_signals[j].price # RiskSells[i].exit_price
    /\ \E i \in 1..Len(StrategySells) :
          /\ Count(last.sell_signals, StrategySells[i].ticker) = 2
          /\ Count(last.sells, StrategySells[i].ticker) = 1

\* The positions and the cash of the call once its two sell passes are done
AfterSells == Without(last.pre.positions, TickersOf(last.sells))

CashAfterSells == Credited(last.pre.cash, last.sells)

\* The buy signals that the BUY pass looks at, given the slots free after
\* the sells
Window ==
    SubSeq(last.buy_signals, 1,
           Min(max_positions - Len(AfterSells), Len(last.buy_signals)))

\* A signal that the first turn of the BUY loop does not skip
Eligible(signal) ==
    /\ signal.ticker \notin Held(AfterSells)
    /\ check_sector_diversification(AfterSells, signal.ticker)

\* C27: the slots and the cash of the BUY pass are those left by the sell
\* passes of the same call: a call buys only if, after its sells, a slot is
\* free and cash is at least 5000, it buys at most as many as the slots then
\* free, and when that holds the first eligible signal among them is bought,
\* whatever the slots and the cash were before the sells.
C27_SlotsAfterSells ==
    Returned =>
        /\ last.buys # <<>> =>
              /\ Len(AfterSells) < max_positions
              /\ CashAfterSells >= position_size
        /\ Len(last.buys) <= max_positions - Len(AfterSells)
        /\ (/\ Len(AfterSells) < max_positions
            /\ CashAfterSells >= position_size
            /\ \E i \in 1..Len(Window) : Eligible(Window[i]))
              => /\ last.buys # <<>>
                 /\ \E i \in 1..Len(Window) :
                       /\ Eligible(Window[i])
                       /\ \A j \in 1..(i - 1) : ~Eligible(Window[j])
                       /\ last.buys[1].ticker = Window[i].ticker

\* C27 witness: a call that started with 10 positions and cash under 5000
\* sold and then bought.
C27_Witness ==
    /\ Returned
    /\ Len(last.pre.positions) = max_positions
    /\ last.pre.cash < position_size
    /\ last.sells # <<>>
    /\ last.buys # <<>>
    /\ Len(state.positions) < max_positions

\* C28: the BUY pass looks at the first available_slots entries of
\* buy_signals only: the BUYs of a call are entries of that window, in its
\* order, so an entry skipped as held or sector-capped is not replaced and
\* no candidate at a later index is bought, also when slots and cash are
\* left after the pass.
C28_WindowOnly ==
    Returned =>
        /\ Embeds(TickersOf(last.buys), TickersOf(Window))
        /\ \A k \in (Len(Window) + 1)..Len(last.buy_signals) :
              (\A j \in 1..Len(Window) :
                  Window[j].ticker # last.buy_signals[k].ticker)
                => /\ \A i \in 1..Len(last.buys) :
                         last.buys[i].ticker # last.buy_signals[k].ticker
                   /\ last.buy_signals[k].ticker \in Held(state.positions)
                         <=> last.buy_signals[k].ticker \in Held(AfterSells)

\* C28 witness: an entry of the window was skipped as held, and a candidate
\* behind the window that is not held and not sector-capped was not bought
\* although a slot and cash for it are left.
C28_Witness ==
    /\ Returned
    /\ \E j \in 1..Len(Window) : Window[j].ticker \in Held(AfterSells)
    /\ Len(state.positions) < max_positions
    /\ state.cash >= position_size
    /\ \E k \in (Len(Window) + 1)..Len(last.buy_signals) :
          /\ last.buy_signals[k].ticker \notin Held(state.positions)
          /\ check_sector_diversification(state.positions,
                                          last.buy_signals[k].ticker)

\* The BUYs made before the loop reaches entry j of the window
BoughtBefore(j) ==
    SelectSeq(last.buys,
              LAMBDA trade : \E k \in 1..(j - 1) : Window[k].ticker = trade.ticker)

\* Entry j of the window names a ticker sold earlier in the call, and the
\* loop reaches it with the sector open and cash for one more position
Rebuyable(j) ==
    /\ Count(last.sells, Window[j].ticker) > 0
    /\ \A k \in 1..(j - 1) : Window[k].ticker # Window[j].ticker
    /\ CashAfterSells >= position_size
    /\ check_sector_diversification(AfterSells \o BoughtBefore(j), Window[j].ticker)
    /\ Debited(CashAfterSells, BoughtBefore(j)) >= position_size

\* C29: 'already held' is tested on the positions left by the sell passes: a
\* ticker sold by the risk pass or by a strategy sell earlier in the call
\* and named in the window of buy_signals is bought again in that call at
\* the price of its buy signal, so that the call has a SELL and a BUY record
\* for it and the ticker is held afterwards.
C29_SoldThenBought ==
    Returned =>
        \A j \in 1..Len(Window) :
            Rebuyable(j) =>
                /\ Count(last.sells, Window[j].ticker) = 1
                /\ Count(last.buys, Window[j].ticker) = 1
                /\ \E i \in 1..Len(last.buys) :
                      /\ last.buys[i].ticker = Window[j].ticker
                      /\ last.buys[i].entry_price = Window[j].price
                /\ Window[j].ticker \in Held(state.positions)
                /\ Lookup(state.positions, Window[j].ticker).entry_price
                     = Window[j].price

\* C29 witness: a position closed by the risk pass at its live price was
\* bought again in the same call at the different price of its buy signal.
C29_Witness ==
    /\ Returned
    /\ \E i \in 1..Len(RiskSells), j \in 1..Len(last.buys) :
          /\ RiskSells[i].ticker = last.buys[j].ticker
          /\ RiskSells[i].exit_price # last.buys[j].entry_price
          /\ Lookup(state.positions, last.buys[j].ticker).entry_price
               = SignalFor(last.buy_signals, last.buys[j].ticker).price

\* C29 as stated: every ticker sold earlier in the call and named in the
\* window of buy_signals is bought again in that call.
C29_AlwaysBoughtAgain ==
    Returned =>
        \A j \in 1..Len(Window) :
            Count(last.sells, Window[j].ticker) > 0 =>
                /\ Count(last.buys, Window[j].ticker) = 1
                /\ Window[j].ticker \in Held(state.positions)

\* The step constructs a Portfolio over the two files
Loads == last'.op = "load"

\* _load_state on an unparseable main file with a parseable backup
RestoresBackup ==
    (Loads /\ mainFile.kind = "corrupt" /\ backupFile.kind = "json") =>
        /\ state' = LoadJson(backupFile)
        /\ mainFile' = DumpJson(state')
        /\ backupFile' = mainFile
        /\ backupFile'.kind # "json"

\* A kill inside the restore-time save, once the copy has begun
RestoreCut ==
    (last'.op = "restore" /\ backupFile' # backupFile) =>
        /\ mainFile'.kind = "corrupt"
        /\ backupFile'.kind = "corrupt"

\* Without a parseable main file and backup, and whenever the main file is
\* missing, the load starts a new portfolio and writes nothing
StartsNew ==
    (Loads /\ (\/ mainFile.kind = "missing"
               \/ mainFile.kind = "corrupt" /\ backupFile.kind # "json")) =>
        /\ state' = NewState
        /\ state'.cash = F(100000)
        /\ UNCHANGED <<mainFile, backupFile>>

====
